---- MODULE Spec2Model ----
(***************************************************************************)
(* Model of foundry-observability-demo.                                    *)
(*                                                                         *)
(*   src/api  : the Azure Functions blueprints /health and /chat           *)
(*              (chat.py, auth.py, correlation.py, health.py)              *)
(*   src/app  : GenAIApp.process_request with RAGClient and LLMClient      *)
(*              (main.py, rag.py, llm.py)                                  *)
(*   src/backend : the multi-turn chat function (api/function_app.py)      *)
(*                                                                         *)
(* Python strings the code computes on (lower(), split(), rstrip()) are    *)
(* sequences of one-character strings; None is the one-element sequence    *)
(* <<"<None>">>, which no text equals.  Fixed labels the code only copies  *)
(* ("Unauthorized", "gpt-4") are TLA+ strings.                             *)
(***************************************************************************)
EXTENDS Integers, Sequences, FiniteSets, TLC

VARIABLES
    env,          \* os.environ: variable name -> text, or None when unset
    jwksCache,    \* the lru_cache(maxsize=1) of auth.get_jwks_client
    jwksUsed,     \* the resolver the last validate_jwt_token call asked for the
                  \* signing key, and the ENTRA_ISSUER configured at that call
    clients,      \* chat._credential, chat._openai_client, chat._search_client
    pc,           \* position of the request being handled by src/api
    handler,      \* which src/api function handles it
    cid,          \* correlation_id local of the handler
    hdr,          \* the request's Authorization header
    verify,       \* what PyJWT found for the token, once it was asked
    body,         \* the request body, once chat() has read it
    rootAttrs,    \* attributes set on the chat_request span
    completionAttrs, \* attributes set on the openai_chat_completion span
    rootStatus,   \* status of the chat_request span and the exceptions
                  \* recorded on it
    rag_context,  \* rag_context local of chat()
    messages,     \* the messages handed to client.complete, if it was called
    calls,        \* what this request has done: validation, parsing, backend calls
    resp,         \* the HttpResponse returned, or NoResponse
    documents,    \* RAGClient.documents: the similarity_score each dict holds
    retrieved,    \* what the last retrieve_documents call returned or raised
    app_pc,       \* position of GenAIApp.process_request
    user_query,   \* user_query argument
    use_rag,      \* use_rag argument
    rag_text,     \* context local of process_request
    safety_result,\* safety_result local of process_request
    search_failed,\* the search inside the last retrieve_documents call raised
    search_args,  \* top_k of the last retrieve_documents call and the list
                  \* random.sample handed it
    root_span,    \* the request.process span
    safety_span,  \* the request.safety_check span
    counter_adds, \* the add() calls this request made on the three counters
    llm_calls,    \* calls of LLMClient.call_llm and check_safety by this request
    returned,     \* what process_request returned or raised
    be_env,       \* os.environ of the src/backend function app
    be_pc,        \* position of chat() of src/backend
    be_cid,       \* its correlation_id local
    be_hdr,       \* the request's Authorization header
    be_body,      \* the request body, once read
    be_span,      \* the chat_request span: status and attributes
    be_metrics,   \* add() and record() calls of this request on the meters
    be_docs,      \* context_docs local
    be_resp,      \* the HttpResponse returned, or NoResponse
    tel_helper,   \* the telemetry helper last called
    tel_in,       \* the mapping handed to it
    tel_out,      \* what it handed on to the span
    shared,       \* chat._credential, _openai_client, _search_client and the
                  \* get_jwks_client cache, as seen by concurrent requests:
                  \* the instance held, 0 for None
    built,        \* how many instances of each have been constructed
    threads,      \* each worker thread's position in the getter it runs
    ebt_header,   \* authorization_header argument of the last
                  \* extract_bearer_token call
    ebt_token     \* what that call returned

apiVars == <<env, jwksCache, jwksUsed, clients, pc, handler, cid, hdr, verify, body, rootAttrs,
             completionAttrs, rootStatus,
             rag_context, messages, calls, resp>>

appVars == <<documents, retrieved, search_failed, search_args, app_pc, user_query, use_rag,
             rag_text, safety_result, root_span, safety_span, counter_adds, llm_calls, returned>>

backendVars == <<be_env, be_pc, be_cid, be_hdr, be_body, be_span, be_metrics,
                 be_docs, be_resp>>

telemetryVars == <<tel_helper, tel_in, tel_out>>

lazyVars == <<shared, built, threads>>

bearerVars == <<ebt_header, ebt_token>>

vars == <<apiVars, appVars, backendVars, telemetryVars, lazyVars, bearerVars>>

\* what the functions of src/api leave alone
exceptApi == <<appVars, backendVars, telemetryVars, lazyVars, bearerVars>>

\* what GenAIApp leaves alone
exceptApp == <<apiVars, backendVars, telemetryVars, lazyVars, bearerVars>>

\* what the function app of src/backend leaves alone
exceptBackend == <<apiVars, appVars, telemetryVars, lazyVars, bearerVars>>

\* what the telemetry helpers leave alone
exceptTelemetry == <<apiVars, appVars, backendVars, lazyVars, bearerVars>>

\* what the lazily initialised getters, run by concurrent requests, leave alone
exceptLazy == <<apiVars, appVars, backendVars, telemetryVars, bearerVars>>

\* what a call of extract_bearer_token on its own leaves alone
exceptBearer == <<apiVars, appVars, backendVars, telemetryVars, lazyVars>>

-----------------------------------------------------------------------------
(* Text                                                                    *)

None == <<"<None>">>

IsNone(v) == v = None

\* Python truthiness of an Optional[str]: None and "" are falsy
NotStr(v) == IsNone(v) \/ v = <<>>

UpperChars == <<"A","B","C","D","E","F","G","H","I","J","K","L","M",
                "N","O","P","Q","R","S","T","U","V","W","X","Y","Z">>
LowerChars == <<"a","b","c","d","e","f","g","h","i","j","k","l","m",
                "n","o","p","q","r","s","t","u","v","w","x","y","z">>

LowerChar(c) ==
    IF \E i \in DOMAIN UpperChars : UpperChars[i] = c
    THEN LowerChars[CHOOSE i \in DOMAIN UpperChars : UpperChars[i] = c]
    ELSE c

\* str.lower()
Lower(s) == [i \in DOMAIN s |-> LowerChar(s[i])]

IsSpace(c) == c \in {" ", "\t", "\n"}

RECURSIVE SplitFrom(_, _, _)
\* str.split() with no separator: runs of whitespace separate, no empty parts
SplitFrom(s, i, cur) ==
    IF i > Len(s)
    THEN IF cur = <<>> THEN <<>> ELSE <<cur>>
    ELSE IF IsSpace(s[i])
         THEN IF cur = <<>>
              THEN SplitFrom(s, i + 1, <<>>)
              ELSE <<cur>> \o SplitFrom(s, i + 1, <<>>)
         ELSE SplitFrom(s, i + 1, Append(cur, s[i]))

Split(s) == SplitFrom(s, 1, <<>>)

RECURSIVE RStrip(_, _)
\* str.rstrip(ch)
RStrip(s, ch) ==
    IF s # <<>> /\ s[Len(s)] = ch THEN RStrip(SubSeq(s, 1, Len(s) - 1), ch) ELSE s

sTrue == <<"t","r","u","e">>
sFalse == <<"f","a","l","s","e">>
sBearer == <<"b","e","a","r","e","r">>

-----------------------------------------------------------------------------
(* Environment                                                             *)

EnvNames == {"JWT_VALIDATION_ENABLED", "ENTRA_ISSUER", "ENTRA_AUDIENCE",
             "AZURE_OPENAI_ENDPOINT", "AZURE_SEARCH_ENDPOINT",
             "AZURE_SEARCH_INDEX_NAME", "RAG_ENABLED", "AZURE_SEARCH_TOP_K",
             "AZURE_OPENAI_DEPLOYMENT_NAME"}

\* os.getenv(name, default)
Getenv(name, default) == IF IsNone(env[name]) THEN default ELSE env[name]


\* the value sets the environment is explored over: unset, or one of these
EnvTexts(name) ==
    CASE name = "JWT_VALIDATION_ENABLED" ->
                {<<"T","r","u","e">>, sFalse, <<"y","e","s">>}
      [] name = "ENTRA_ISSUER" -> {<<"i","/">>}
      [] name = "ENTRA_AUDIENCE" -> {<<"a">>}
      [] name = "AZURE_OPENAI_ENDPOINT" -> {<<"o">>}
      [] name = "AZURE_SEARCH_ENDPOINT" -> {<<"s">>}
      [] name = "AZURE_SEARCH_INDEX_NAME" -> {<<"x">>}
      [] name = "RAG_ENABLED" -> {sTrue}
      [] OTHER -> {}

-----------------------------------------------------------------------------
(* Python values: JSON values of the request body, span attribute values   *)

PNone == [t |-> "none"]
PBool(b) == [t |-> "bool", v |-> b]
PInt(n) == [t |-> "int", v |-> n]
\* a str of `len` characters; `text` names its content
PStr(text, len) == [t |-> "str", text |-> text, len |-> len]
PList(len) == [t |-> "list", len |-> len]
\* a dict: `d` maps its keys to values
PDict(d) == [t |-> "dict", d |-> d]

\* bool(value)
Truthy(val) ==
    CASE val.t = "none" -> FALSE
      [] val.t = "bool" -> val.v
      [] val.t = "int" -> val.v # 0
      [] val.t = "str" -> val.len > 0
      [] val.t = "list" -> val.len > 0
      [] val.t = "dict" -> DOMAIN val.d # {}

\* dict.get(key, default)
DictGet(dict, key, default) ==
    IF key \in DOMAIN dict.d THEN dict.d[key] ELSE default

-----------------------------------------------------------------------------
(* Exceptions: the classes the handlers' except clauses tell apart         *)

ExcParent ==
    [c \in {"ValueError", "AttributeError", "LookupError", "RuntimeError",
             "PyJWTError", "HttpResponseError"} |-> "Exception"]
    @@ [c \in {"IndexError"} |-> "LookupError"]
    @@ [c \in {"JSONDecodeError"} |-> "ValueError"]
    @@ [c \in {"InvalidTokenError", "PyJWKClientError"} |-> "PyJWTError"]
    @@ [c \in {"PyJWKClientConnectionError"} |-> "PyJWKClientError"]
    @@ [c \in {"DecodeError", "ExpiredSignatureError", "ImmatureSignatureError",
               "InvalidAudienceError", "InvalidIssuerError"} |-> "InvalidTokenError"]
    @@ [c \in {"InvalidSignatureError"} |-> "DecodeError"]

RECURSIVE IsInstance(_, _)
\* isinstance(exc, cls), as an except clause decides it
IsInstance(exc, cls) ==
    \/ exc = cls
    \/ exc \in DOMAIN ExcParent /\ IsInstance(ExcParent[exc], cls)

Return(v) == [kind |-> "return", value |-> v]
Raise(exc) == [kind |-> "raise", exc |-> exc]

-----------------------------------------------------------------------------
(* src/api/telemetry.py                                                    *)

kContent == <<"c","o","n","t","e","n","t">>
kMessage == <<"m","e","s","s","a","g","e">>
kQuery == <<"q","u","e","r","y">>
kText == <<"t","e","x","t">>
kCorrelationId == <<"c","o","r","r","e","l","a","t","i","o","n","_","i","d">>
kUserId == <<"u","s","e","r","_","i","d">>
kRagEnabled == <<"r","a","g","_","e","n","a","b","l","e","d">>
kDocCount == <<"r","a","g","_","d","o","c","_","c","o","u","n","t">>
kModel == <<"m","o","d","e","l">>
kFinishReason == <<"f","i","n","i","s","h","_","r","e","a","s","o","n">>
kPromptTokens == <<"p","r","o","m","p","t","_","t","o","k","e","n","s">>
kCompletionTokens ==
    <<"c","o","m","p","l","e","t","i","o","n","_","t","o","k","e","n","s">>

SENSITIVE_FIELDS == {kContent, kMessage, kQuery, kText}

\* `sub in s` for Python strings
Contains(sub, s) ==
    \E i \in 0..(Len(s) - Len(sub)) : SubSeq(s, i + 1, i + Len(sub)) = sub

\* add_span_attributes(span, attributes) on a recording span: the span's
\* attributes afterwards
AddSpanAttributes(attrs, attributes) ==
    LET kept == {key \in DOMAIN attributes :
                    /\ Truthy(attributes[key])
                    /\ ~ \E sensitive \in SENSITIVE_FIELDS :
                            Contains(sensitive, Lower(key))}
    IN [key \in DOMAIN attrs \cup kept |->
            IF key \in kept THEN attributes[key] ELSE attrs[key]]

-----------------------------------------------------------------------------
(* src/api/auth.py                                                         *)

JwksPath == <<"/","d","i","s","c","o","v","e","r","y","/","k","e","y","s">>

\* the body of get_jwks_client: None, or PyJWKClient(jwks_uri) shown as its uri
NewJwksClient ==
    IF Lower(Getenv("JWT_VALIDATION_ENABLED", sTrue)) # sTrue
    THEN None
    ELSE LET issuer == Getenv("ENTRA_ISSUER", <<>>)
         IN IF issuer = <<>> THEN None ELSE RStrip(issuer, "/") \o JwksPath

\* get_jwks_client() under lru_cache(maxsize=1): the cache is << >> until the
\* first call and <<result>> afterwards
get_jwks_client == IF jwksCache = <<>> THEN NewJwksClient ELSE jwksCache[1]

\* what PyJWT finds for a presented token: the key lookup of
\* jwks_client.get_signing_key_from_jwt, then jwt.decode's checks
Verdicts == {"valid", "valid_no_sub", "malformed", "key_unresolved",
             "jwks_unreachable", "bad_signature", "expired", "not_yet_valid",
             "wrong_audience", "wrong_issuer"}

get_signing_key_from_jwt(verdict) ==
    CASE verdict = "malformed" -> Raise("DecodeError")
      [] verdict = "key_unresolved" -> Raise("PyJWKClientError")
      [] verdict = "jwks_unreachable" -> Raise("PyJWKClientConnectionError")
      [] OTHER -> Return("signing_key")

jwt_decode(verdict) ==
    CASE verdict = "bad_signature" -> Raise("InvalidSignatureError")
      [] verdict = "expired" -> Raise("ExpiredSignatureError")
      [] verdict = "not_yet_valid" -> Raise("ImmatureSignatureError")
      [] verdict = "wrong_audience" -> Raise("InvalidAudienceError")
      [] verdict = "wrong_issuer" -> Raise("InvalidIssuerError")
      [] verdict = "valid_no_sub" -> Return(PDict([aud |-> PStr("aud", 1)]))
      [] OTHER -> Return(PDict([sub |-> PStr("user", 4)]))

\* validate_jwt_token reaches its get_jwks_client() call
ReachesJwksClient ==
    /\ Lower(Getenv("JWT_VALIDATION_ENABLED", sTrue)) = sTrue
    /\ ~ NotStr(env["ENTRA_ISSUER"])
    /\ ~ NotStr(env["ENTRA_AUDIENCE"])

\* validate_jwt_token gets as far as asking PyJWT about the token
AsksPyJWT == ReachesJwksClient /\ ~ IsNone(get_jwks_client)

NoJwksUse == [client |-> None, issuer |-> None]

\* validate_jwt_token, lines 53-65: the jwks_client whose
\* get_signing_key_from_jwt is called, next to the issuer read at line 53
JwksUse ==
    IF AsksPyJWT
    THEN [client |-> get_jwks_client, issuer |-> env["ENTRA_ISSUER"]]
    ELSE NoJwksUse

\* validate_jwt_token with the configuration check moved ahead of the
\* enabled check
validate_jwt_token_config_first(tok, verdict) ==
    IF NotStr(env["ENTRA_ISSUER"]) \/ NotStr(env["ENTRA_AUDIENCE"])
    THEN Raise("ValueError")
    ELSE IF Lower(Getenv("JWT_VALIDATION_ENABLED", sTrue)) # sTrue
    THEN Return(PDict([sub |-> PStr("anonymous", 9)]))
    ELSE IF IsNone(get_jwks_client)
    THEN Raise("ValueError")
    ELSE IF get_signing_key_from_jwt(verdict).kind = "raise"
    THEN get_signing_key_from_jwt(verdict)
    ELSE jwt_decode(verdict)

\* validate_jwt_token(token): the payload returned or the exception raised
validate_jwt_token(tok, verdict) ==
    IF Lower(Getenv("JWT_VALIDATION_ENABLED", sTrue)) # sTrue
    THEN Return(PDict([sub |-> PStr("anonymous", 9)]))
    ELSE IF NotStr(env["ENTRA_ISSUER"]) \/ NotStr(env["ENTRA_AUDIENCE"])
    THEN Raise("ValueError")
    ELSE IF IsNone(get_jwks_client)
    THEN Raise("ValueError")
    ELSE IF get_signing_key_from_jwt(verdict).kind = "raise"
    THEN get_signing_key_from_jwt(verdict)
    ELSE jwt_decode(verdict)

\* extract_bearer_token comparing the scheme without .lower()
extract_bearer_token_case_sensitive(authorization_header) ==
    IF NotStr(authorization_header)
    THEN None
    ELSE LET parts == Split(authorization_header)
         IN IF Len(parts) # 2 \/ parts[1] # <<"B","e","a","r","e","r">>
            THEN None
            ELSE parts[2]

\* extract_bearer_token(authorization_header)
extract_bearer_token(authorization_header) ==
    IF NotStr(authorization_header)
    THEN None
    ELSE LET parts == Split(authorization_header)
         IN IF Len(parts) # 2 \/ Lower(parts[1]) # sBearer
            THEN None
            ELSE parts[2]

-----------------------------------------------------------------------------
(* src/api/correlation.py, src/api/health.py                               *)

MaxCorrIds == 2

\* the values str(uuid.uuid4()) is drawn from
CorrIds == {ToString(i) : i \in 1..MaxCorrIds}

NoResponse == [status_code |-> 0, body |-> << >>, headers |-> << >>]

\* func.HttpResponse(body=json.dumps(body), status_code=..., headers={"X-Correlation-ID": ...})
HttpResponse(status_code, json_body, correlation_id) ==
    [status_code |-> status_code,
     body |-> json_body,
     headers |-> [h \in {"X-Correlation-ID"} |-> correlation_id]]

HealthResponse(correlation_id) ==
    HttpResponse(200,
                 [status |-> "healthy",
                  service |-> "foundry-observability-demo-api",
                  correlationId |-> correlation_id],
                 correlation_id)

-----------------------------------------------------------------------------
(* src/api/chat.py                                                         *)

MAX_MESSAGE_LENGTH == 4000

\* TooLong with >= for >
TooLongOffByOne(message) == message.len >= MAX_MESSAGE_LENGTH

\* len(user_message) > MAX_MESSAGE_LENGTH
TooLong(message) == message.len > MAX_MESSAGE_LENGTH

\* the error responses chat() builds at its return sites; a message is the
\* sequence of the parts it is formatted from
ErrorResponse(status_code, error, message, correlation_id) ==
    HttpResponse(status_code,
                 [error |-> error, message |-> message,
                  correlationId |-> correlation_id],
                 correlation_id)

MissingTokenResponse(correlation_id) ==
    ErrorResponse(401, "Unauthorized", <<"Missing or invalid authorization token">>,
                  correlation_id)

InvalidTokenResponse(correlation_id) ==
    ErrorResponse(401, "Unauthorized", <<"Invalid authorization token">>, correlation_id)

InvalidJsonResponse(correlation_id) ==
    ErrorResponse(400, "Bad Request", <<"Invalid JSON in request body">>, correlation_id)

InvalidMessageResponse(correlation_id) ==
    ErrorResponse(400, "Bad Request",
                  <<"Missing or invalid 'message' field in request body">>, correlation_id)

\* f"Message exceeds maximum length of {MAX_MESSAGE_LENGTH} characters"
TooLongResponse(correlation_id) ==
    ErrorResponse(400, "Bad Request",
                  <<"Message exceeds maximum length of ", MAX_MESSAGE_LENGTH,
                    " characters">>,
                  correlation_id)

\* ExceptResponse with str(e) as the message of the body
ExceptResponseWithExceptionText(exc, correlation_id) ==
    ErrorResponse(500,
                  IF IsInstance(exc, "ValueError")
                  THEN "Service Configuration Error"
                  ELSE "Internal Server Error",
                  <<"str(e)", exc>>, correlation_id)

\* ExceptResponse with the X-Correlation-ID header left off the 500 responses
ExceptResponseNoHeader(exc, correlation_id) ==
    [status_code |-> 500,
     body |-> [error |-> IF IsInstance(exc, "ValueError")
                         THEN "Service Configuration Error"
                         ELSE "Internal Server Error",
               message |-> IF IsInstance(exc, "ValueError")
                           THEN <<"Service is not properly configured">>
                           ELSE <<"An unexpected error occurred">>,
               correlationId |-> correlation_id],
     headers |-> << >>]

\* ExceptResponse with `except Exception` placed before `except ValueError`
ExceptResponseUnexpectedFirst(exc, correlation_id) ==
    ErrorResponse(500, "Internal Server Error",
                  <<"An unexpected error occurred">>, correlation_id)

\* the two except clauses that close chat()'s try block
ExceptResponse(exc, correlation_id) ==
    IF IsInstance(exc, "ValueError")
    THEN ErrorResponse(500, "Service Configuration Error",
                       <<"Service is not properly configured">>, correlation_id)
    ELSE ErrorResponse(500, "Internal Server Error",
                       <<"An unexpected error occurred">>, correlation_id)

SuccessResponse(result, correlation_id) ==
    HttpResponse(200,
                 [answer |-> result.answer,
                  correlationId |-> correlation_id,
                  model |-> result.model,
                  usage |-> result.usage],
                 correlation_id)

NoClients == [credential |-> None, openai |-> None, search |-> None]

\* get_credential(): the credential returned
get_credential(cl) ==
    IF IsNone(cl.credential) THEN <<"DefaultAzureCredential">> ELSE cl.credential

\* get_openai_client reading the configuration on every call
get_openai_client_uncached(cl) ==
    LET endpoint == env["AZURE_OPENAI_ENDPOINT"]
    IN IF NotStr(endpoint) THEN Raise("ValueError") ELSE Return(endpoint)

\* get_openai_client(): the client returned (shown as the endpoint it was built
\* for) or the ValueError raised
get_openai_client(cl) ==
    IF IsNone(cl.openai)
    THEN LET endpoint == env["AZURE_OPENAI_ENDPOINT"]
         IN IF NotStr(endpoint) THEN Raise("ValueError") ELSE Return(endpoint)
    ELSE Return(cl.openai)

\* the module globals after get_openai_client()
AfterOpenaiClient(cl) ==
    IF get_openai_client(cl).kind = "raise"
    THEN cl
    ELSE [cl EXCEPT !.credential = get_credential(cl),
                    !.openai = get_openai_client(cl).value]

\* get_search_client(): the client returned (its endpoint and index) or the
\* ValueError raised
get_search_client(cl) ==
    IF IsNone(cl.search)
    THEN LET endpoint == env["AZURE_SEARCH_ENDPOINT"]
             index_name == env["AZURE_SEARCH_INDEX_NAME"]
         IN IF NotStr(endpoint) \/ NotStr(index_name)
            THEN Raise("ValueError")
            ELSE Return(<<endpoint, index_name>>)
    ELSE Return(cl.search)

\* the module globals after get_search_client()
AfterSearchClient(cl) ==
    IF get_search_client(cl).kind = "raise"
    THEN cl
    ELSE [cl EXCEPT !.credential = get_credential(cl),
                    !.search = get_search_client(cl).value]

MaxDocs == 2

\* the index as the search backend ranks it for a query
SearchIndex ==
    [i \in 1..MaxDocs |->
        [id |-> i, score |-> MaxDocs + 1 - i, content |-> <<"doc", i>>]]

\* what search_client.search(search_text, top, select) and the iteration over
\* its results can do: raise, or yield at most `top` results
SearchOutcomes(top_k) ==
    {Raise("HttpResponseError")}
    \cup {Return(SubSeq(SearchIndex, 1, n)) : n \in {m \in 0..MaxDocs : m <= top_k}}

\* perform_rag_search without its try/except
perform_rag_search_uncaught(cl, query, top_k, outcome) ==
    IF get_search_client(cl).kind = "raise"
    THEN get_search_client(cl)
    ELSE IF outcome.kind = "raise"
    THEN outcome
    ELSE Return([i \in DOMAIN outcome.value |->
                    [metadata |-> [id |-> outcome.value[i].id,
                                   score |-> outcome.value[i].score],
                     content |-> outcome.value[i].content]])

\* perform_rag_search(query, top_k): the list returned; its except clause
\* turns every exception of the try block into an empty list
perform_rag_search(cl, query, top_k, outcome) ==
    IF get_search_client(cl).kind = "raise"
    THEN Return(<< >>)
    ELSE IF outcome.kind = "raise"
    THEN Return(<< >>)
    ELSE Return([i \in DOMAIN outcome.value |->
                    [metadata |-> [id |-> outcome.value[i].id,
                                   score |-> outcome.value[i].score],
                     content |-> outcome.value[i].content]])

\* what client.complete(...) can do: raise, answer without a choice, or answer
\* with or without usage
NoUsage == [none |-> TRUE]

CompletionOutcomes ==
    {Raise("HttpResponseError"), Raise("IndexError")}
    \cup {Return([answer |-> "ok", finish_reason |-> "stop", usage |-> u]) :
            u \in {NoUsage,
                   [prompt_tokens |-> 10, completion_tokens |-> 5,
                    total_tokens |-> 15]}}

DefaultDeployment == <<"g","p","t","-","4">>

\* create_chat_completion reporting the prompt tokens as the total
create_chat_completion_total_from_prompt(cl, message, context, correlation_id, outcome) ==
    IF get_openai_client(cl).kind = "raise"
    THEN get_openai_client(cl)
    ELSE IF outcome.kind = "raise"
    THEN outcome
    ELSE LET deployment_name ==
                Getenv("AZURE_OPENAI_DEPLOYMENT_NAME", DefaultDeployment)
             usage == outcome.value.usage
         IN Return([answer |-> outcome.value.answer,
                    model |-> deployment_name,
                    usage |->
                      [prompt_tokens |->
                          IF usage # NoUsage THEN usage.prompt_tokens ELSE 0,
                       completion_tokens |->
                          IF usage # NoUsage THEN usage.completion_tokens ELSE 0,
                       total_tokens |->
                          IF usage # NoUsage THEN usage.prompt_tokens ELSE 0]])

\* create_chat_completion(user_message, rag_context, correlation_id): the dict
\* returned or the exception raised
create_chat_completion(cl, message, context, correlation_id, outcome) ==
    IF get_openai_client(cl).kind = "raise"
    THEN get_openai_client(cl)
    ELSE IF outcome.kind = "raise"
    THEN outcome
    ELSE LET deployment_name ==
                Getenv("AZURE_OPENAI_DEPLOYMENT_NAME", DefaultDeployment)
             usage == outcome.value.usage
         IN Return([answer |-> outcome.value.answer,
                    model |-> deployment_name,
                    usage |->
                      [prompt_tokens |->
                          IF usage # NoUsage THEN usage.prompt_tokens ELSE 0,
                       completion_tokens |->
                          IF usage # NoUsage THEN usage.completion_tokens ELSE 0,
                       total_tokens |->
                          IF usage # NoUsage THEN usage.total_tokens ELSE 0]])

\* completion_span_attributes with the answer put on the span as well
completion_span_attributes_with_answer(cl, context, correlation_id, outcome) ==
    LET before ==
            AddSpanAttributes(<< >>,
                (kCorrelationId :> PStr(correlation_id, 36))
                @@ (kRagEnabled :> PBool(~ context.none))
                @@ (kDocCount :> PInt(Len(context.docs))))
        deployment_name ==
            Getenv("AZURE_OPENAI_DEPLOYMENT_NAME", DefaultDeployment)
        usage == outcome.value.usage
    IN IF get_openai_client(cl).kind = "raise" \/ outcome.kind = "raise"
       THEN before
       ELSE AddSpanAttributes(before,
                (kModel :> PStr(deployment_name, Len(deployment_name)))
                @@ (<<"a","n","s","w","e","r">> :> PStr(outcome.value.answer, 2))
                @@ (kFinishReason :> PStr(outcome.value.finish_reason, 4))
                @@ (kPromptTokens :>
                      PInt(IF usage # NoUsage THEN usage.prompt_tokens ELSE 0))
                @@ (kCompletionTokens :>
                      PInt(IF usage # NoUsage THEN usage.completion_tokens ELSE 0)))

\* create_chat_completion, lines 135-177: the attributes its two
\* add_span_attributes calls leave on the openai_chat_completion span
completion_span_attributes(cl, context, correlation_id, outcome) ==
    LET before ==
            AddSpanAttributes(<< >>,
                (kCorrelationId :> PStr(correlation_id, 36))
                @@ (kRagEnabled :> PBool(~ context.none))
                @@ (kDocCount :> PInt(Len(context.docs))))
        deployment_name ==
            Getenv("AZURE_OPENAI_DEPLOYMENT_NAME", DefaultDeployment)
        usage == outcome.value.usage
    IN IF get_openai_client(cl).kind = "raise" \/ outcome.kind = "raise"
       THEN before
       ELSE AddSpanAttributes(before,
                (kModel :> PStr(deployment_name, Len(deployment_name)))
                @@ (kFinishReason :> PStr(outcome.value.finish_reason, 4))
                @@ (kPromptTokens :>
                      PInt(IF usage # NoUsage THEN usage.prompt_tokens ELSE 0))
                @@ (kCompletionTokens :>
                      PInt(IF usage # NoUsage THEN usage.completion_tokens ELSE 0)))

Digits == <<"0","1","2","3","4","5","6","7","8","9">>

IsDigit(c) == \E i \in DOMAIN Digits : Digits[i] = c

DigitValue(c) == (CHOOSE i \in DOMAIN Digits : Digits[i] = c) - 1

RECURSIVE DigitsValue(_)
DigitsValue(s) ==
    IF s = <<>> THEN 0
    ELSE 10 * DigitsValue(SubSeq(s, 1, Len(s) - 1)) + DigitValue(s[Len(s)])

\* int(text) for a decimal literal with an optional sign; anything else raises
ParseInt(s) ==
    LET signed == s # <<>> /\ s[1] \in {"+", "-"}
        digits == IF signed THEN SubSeq(s, 2, Len(s)) ELSE s
    IN IF digits = <<>> \/ \E i \in DOMAIN digits : ~ IsDigit(digits[i])
       THEN Raise("ValueError")
       ELSE Return(IF signed /\ s[1] = "-"
                   THEN 0 - DigitsValue(digits) ELSE DigitsValue(digits))

-----------------------------------------------------------------------------
(* Requests                                                                *)

\* Authorization headers: absent, one part, another scheme, a bearer token
Headers == {None,
            <<"B","e","a","r","e","r">>,
            <<"B","a","s","i","c"," ","t">>,
            <<"B","e","a","r","e","r"," ","t">>}

\* request bodies: text that is no JSON, or a JSON value
InvalidJsonBody == [valid |-> FALSE, json |-> PNone]
JsonBody(v) == [valid |-> TRUE, json |-> v]

MessageLengths == {1, MAX_MESSAGE_LENGTH, MAX_MESSAGE_LENGTH + 1, 5000}

MessageFields ==
    {PNone, PStr("", 0), PInt(5), PList(1)}
    \cup {PStr("m", n) : n \in MessageLengths}

JsonObjects ==
    {PDict(<< >>)}
    \cup {PDict([message |-> m]) : m \in MessageFields}
    \cup {PDict([message |-> m, enableRag |-> PBool(TRUE)]) :
            m \in {PStr("m", n) : n \in MessageLengths}}
    \cup {PDict([message |-> PStr("m", 1), enableRag |-> PBool(FALSE)])}

Bodies ==
    {InvalidJsonBody}
    \cup {JsonBody(v) : v \in {PNone, PInt(7), PStr("s", 5), PList(0)}}
    \cup {JsonBody(v) : v \in JsonObjects}

\* req.get_json()
get_json(b) == IF b.valid THEN Return(b.json) ELSE Raise("JSONDecodeError")

NoBody == [valid |-> FALSE, json |-> [t |-> "unread"]]

\* calls made by the request: validate_jwt_token, req.get_json,
\* perform_rag_search, search_client.search, client.complete, and whether the
\* two backend calls raised; `safety` counts content-safety checks of the
\* message, of which chat() (lines 302-319) makes none; `completion` is what
\* client.complete answered; `retrieval_span` counts spans opened around the
\* retrieval, of which chat() and perform_rag_search (lines 79-118) open none
NoCalls == [validate |-> 0, parse |-> 0, rag |-> 0, search |-> 0, complete |-> 0,
            search_raised |-> FALSE, complete_raised |-> FALSE, safety |-> 0,
            completion |-> [kind |-> "none"], retrieval_span |-> 0]

\* rag_context: None, or the list perform_rag_search returned
NoContext == [none |-> TRUE, docs |-> << >>]
Context(docs) == [none |-> FALSE, docs |-> docs]

NoMessages == [sent |-> FALSE, context |-> << >>, user |-> PNone]

\* the system and user messages create_chat_completion builds: the document
\* contents injected into the system prompt, in order, and the user message
BuildMessages(message, context) ==
    [sent |-> TRUE,
     context |-> IF context.docs # << >>
                 THEN [i \in DOMAIN context.docs |-> context.docs[i].content]
                 ELSE << >>,
     user |-> message]

token == extract_bearer_token(hdr)

\* JwtRequired without .lower()
JwtRequiredCaseSensitive == Getenv("JWT_VALIDATION_ENABLED", sTrue) = sTrue

\* os.getenv("JWT_VALIDATION_ENABLED", "true").lower() == "true"
JwtRequired == Lower(Getenv("JWT_VALIDATION_ENABLED", sTrue)) = sTrue

\* rag_enabled_global with retrieval on unless switched off
rag_enabled_global_default_on == Lower(Getenv("RAG_ENABLED", sTrue)) = sTrue

\* os.getenv("RAG_ENABLED", "false").lower() == "true"
rag_enabled_global == Lower(Getenv("RAG_ENABLED", sFalse)) = sTrue

user_message == DictGet(body.json, "message", PNone)

enable_rag == DictGet(body.json, "enableRag", PBool(FALSE))

-----------------------------------------------------------------------------
(* State machine of src/api                                                *)

\* a span as tracer.start_as_current_span hands it out: status UNSET, no
\* exception recorded.  The context manager records an exception and sets
\* ERROR only when one leaves the `with` block.
NoRootStatus == [status |-> "UNSET", exceptions |-> << >>]

\* the chat_request span after one of the except clauses of chat() (lines
\* 336-348 for ValueError, 350-362 for Exception) has answered with the error
\* label `error`: both build the response and call neither span.set_status
\* nor span.record_exception, and the return leaves the `with` block normally
StatusAfterExcept(span, error) == span

\* the chat_request span once the phase that just ran has finished
StatusAfterPhase(span, next_pc, response) ==
    IF next_pc = "done" /\ response.status_code = 500
    THEN StatusAfterExcept(span, response.body.error)
    ELSE span

ApiInit ==
    /\ env = [n \in EnvNames |-> None]
    /\ jwksCache = << >>
    /\ jwksUsed = NoJwksUse
    /\ clients = NoClients
    /\ pc = "idle"
    /\ handler = "none"
    /\ cid = ""
    /\ hdr = None
    /\ verify = "unasked"
    /\ body = NoBody
    /\ rootAttrs = << >>
    /\ completionAttrs = << >>
    /\ rootStatus = NoRootStatus
    /\ rag_context = NoContext
    /\ messages = NoMessages
    /\ calls = NoCalls
    /\ resp = NoResponse

\* the test harness or the host sets or unsets a variable between requests
SetEnv ==
    /\ pc = "idle"
    /\ \E name \in EnvNames :
         \E text \in EnvTexts(name) \cup {None} :
            /\ text # env[name]
            /\ env' = [env EXCEPT ![name] = text]
    /\ UNCHANGED exceptApi
    /\ UNCHANGED jwksUsed
    /\ UNCHANGED <<jwksCache, clients, pc, handler, cid, hdr, verify, body,
                   rootAttrs, completionAttrs, rootStatus, rag_context, messages,
                   calls, resp>>

\* health(req)
Health ==
    /\ pc = "idle"
    /\ \E correlation_id \in CorrIds :
         /\ cid' = correlation_id
         /\ resp' = HealthResponse(correlation_id)
    /\ handler' = "health"
    /\ pc' = "done"
    /\ UNCHANGED exceptApi
    /\ UNCHANGED jwksUsed
    /\ UNCHANGED <<env, jwksCache, clients, hdr, verify, body, rootAttrs,
                   completionAttrs, rootStatus, rag_context, messages, calls>>

\* chat(req), lines 216-225: the correlation id, the root span, the header
ChatBegin ==
    /\ pc = "idle"
    /\ \E correlation_id \in CorrIds :
         /\ cid' = correlation_id
         /\ rootAttrs' = AddSpanAttributes(<< >>,
                            (kCorrelationId :> PStr(correlation_id, 36)))
    /\ \E auth_header \in Headers : hdr' = auth_header
    /\ handler' = "chat"
    /\ pc' = "auth"
    /\ UNCHANGED exceptApi
    /\ UNCHANGED jwksUsed
    /\ rootStatus' = NoRootStatus
    /\ UNCHANGED <<env, jwksCache, clients, verify, body, completionAttrs,
                   rag_context, messages, calls, resp>>

\* chat(req) returns `response`
Respond(response) ==
    /\ resp' = response
    /\ pc' = "done"

\* chat(req), lines 227-255: JWT validation
ChatAuth ==
    /\ pc = "auth"
    /\ IF IsNone(token) /\ JwtRequired
       THEN /\ Respond(MissingTokenResponse(cid))
            /\ UNCHANGED <<jwksCache, jwksUsed, verify, rootAttrs, calls>>
       ELSE IF ~ IsNone(token)
       THEN \E verdict \in Verdicts :
              LET payload == validate_jwt_token(token, verdict)
              IN /\ calls' = [calls EXCEPT !.validate = 1]
                 /\ verify' = IF AsksPyJWT THEN verdict ELSE "unasked"
                 /\ jwksUsed' = JwksUse
                 /\ jwksCache' = IF ReachesJwksClient
                                 THEN <<get_jwks_client>> ELSE jwksCache
                 /\ IF payload.kind = "return"
                    THEN /\ rootAttrs' = AddSpanAttributes(rootAttrs,
                               (kUserId :> DictGet(payload.value, "sub",
                                                   PStr("unknown", 7))))
                         /\ pc' = "parse"
                         /\ UNCHANGED resp
                    ELSE /\ Respond(IF IsInstance(payload.exc, "InvalidTokenError")
                                    THEN InvalidTokenResponse(cid)
                                    ELSE ExceptResponse(payload.exc, cid))
                         /\ UNCHANGED rootAttrs
       ELSE /\ pc' = "parse"
            /\ UNCHANGED <<jwksCache, jwksUsed, verify, rootAttrs, calls, resp>>
    /\ rootStatus' = StatusAfterPhase(rootStatus, pc', resp')
    /\ UNCHANGED exceptApi
    /\ UNCHANGED <<env, clients, handler, cid, hdr, body, completionAttrs,
                   rag_context, messages>>

\* ChatParse whose length check answers 400 and lets the pipeline go on
ChatParseTooLongGoesOn ==
    /\ pc = "parse"
    /\ \E sent \in Bodies :
         /\ body' = sent
         /\ calls' = [calls EXCEPT !.parse = 1]
         /\ IF get_json(sent).kind = "raise"
            THEN Respond(InvalidJsonResponse(cid))
            ELSE IF get_json(sent).value.t # "dict"
            THEN Respond(ExceptResponse("AttributeError", cid))
            ELSE LET message == DictGet(get_json(sent).value, "message", PNone)
                 IN IF ~ Truthy(message) \/ message.t # "str"
                    THEN Respond(InvalidMessageResponse(cid))
                    ELSE IF TooLong(message)
                    THEN resp' = TooLongResponse(cid) /\ pc' = "rag"
                    ELSE pc' = "rag" /\ UNCHANGED resp
    /\ rootStatus' = StatusAfterPhase(rootStatus, pc', resp')
    /\ UNCHANGED exceptApi
    /\ UNCHANGED jwksUsed
    /\ UNCHANGED <<env, jwksCache, clients, handler, cid, hdr, verify, rootAttrs,
                   completionAttrs, rag_context, messages>>

\* chat(req), lines 257-300: the body is parsed and the message validated
ChatParse ==
    /\ pc = "parse"
    /\ \E sent \in Bodies :
         /\ body' = sent
         /\ calls' = [calls EXCEPT !.parse = 1]
         /\ IF get_json(sent).kind = "raise"
            THEN Respond(InvalidJsonResponse(cid))
            ELSE IF get_json(sent).value.t # "dict"
            THEN Respond(ExceptResponse("AttributeError", cid))
            ELSE LET message == DictGet(get_json(sent).value, "message", PNone)
                 IN IF ~ Truthy(message) \/ message.t # "str"
                    THEN Respond(InvalidMessageResponse(cid))
                    ELSE IF TooLong(message)
                    THEN Respond(TooLongResponse(cid))
                    ELSE pc' = "rag" /\ UNCHANGED resp
    /\ rootStatus' = StatusAfterPhase(rootStatus, pc', resp')
    /\ UNCHANGED exceptApi
    /\ UNCHANGED jwksUsed
    /\ UNCHANGED <<env, jwksCache, clients, handler, cid, hdr, verify, rootAttrs,
                   completionAttrs, rag_context, messages>>

\* chat(req), lines 305-312: optional RAG
ChatRetrieve ==
    /\ pc = "rag"
    /\ IF Truthy(enable_rag) /\ rag_enabled_global
       THEN LET top_k == ParseInt(Getenv("AZURE_SEARCH_TOP_K", <<"3">>))
            IN IF top_k.kind = "raise"
               THEN /\ Respond(ExceptResponse(top_k.exc, cid))
                    /\ UNCHANGED <<clients, rag_context, calls>>
               ELSE \E outcome \in SearchOutcomes(top_k.value) :
                      LET found == perform_rag_search(clients, user_message,
                                                      top_k.value, outcome)
                          searched == get_search_client(clients).kind = "return"
                      IN /\ clients' = AfterSearchClient(clients)
                         /\ calls' = [calls EXCEPT
                                !.rag = 1,
                                !.search = IF searched THEN 1 ELSE 0,
                                !.search_raised = searched /\ outcome.kind = "raise"]
                         /\ IF found.kind = "raise"
                            THEN /\ Respond(ExceptResponse(found.exc, cid))
                                 /\ UNCHANGED rag_context
                            ELSE /\ rag_context' = Context(found.value)
                                 /\ pc' = "complete"
                                 /\ UNCHANGED resp
       ELSE /\ rag_context' = NoContext
            /\ pc' = "complete"
            /\ UNCHANGED <<clients, calls, resp>>
    /\ rootStatus' = StatusAfterPhase(rootStatus, pc', resp')
    /\ UNCHANGED exceptApi
    /\ UNCHANGED jwksUsed
    /\ UNCHANGED <<env, jwksCache, handler, cid, hdr, verify, body, rootAttrs,
                   completionAttrs, messages>>

\* chat(req), lines 314-334: the completion and the response
ChatComplete ==
    /\ pc = "complete"
    /\ \E outcome \in CompletionOutcomes :
         LET result == create_chat_completion(clients, user_message, rag_context,
                                              cid, outcome)
         IN /\ Respond(IF result.kind = "raise"
                       THEN ExceptResponse(result.exc, cid)
                       ELSE SuccessResponse(result.value, cid))
            /\ completionAttrs' =
                  completion_span_attributes(clients, rag_context, cid, outcome)
            /\ IF get_openai_client(clients).kind = "raise"
               THEN UNCHANGED <<messages, calls>>
               ELSE /\ messages' = BuildMessages(user_message, rag_context)
                    /\ calls' = [calls EXCEPT
                           !.complete = 1,
                           !.complete_raised = outcome.kind = "raise",
                           !.completion = outcome]
    /\ clients' = AfterOpenaiClient(clients)
    /\ rootStatus' = StatusAfterPhase(rootStatus, pc', resp')
    /\ UNCHANGED exceptApi
    /\ UNCHANGED jwksUsed
    /\ UNCHANGED <<env, jwksCache, handler, cid, hdr, verify, body, rootAttrs,
                   rag_context>>

\* the response has been delivered; the handler's locals are gone
ChatReturn ==
    /\ pc = "done"
    /\ pc' = "idle"
    /\ handler' = "none"
    /\ cid' = ""
    /\ hdr' = None
    /\ verify' = "unasked"
    /\ body' = NoBody
    /\ rootAttrs' = << >>
    /\ completionAttrs' = << >>
    /\ rootStatus' = NoRootStatus
    /\ rag_context' = NoContext
    /\ messages' = NoMessages
    /\ calls' = NoCalls
    /\ resp' = NoResponse
    /\ jwksUsed' = NoJwksUse
    /\ UNCHANGED exceptApi
    /\ UNCHANGED <<env, jwksCache, clients>>

ApiNext ==
    \/ SetEnv
    \/ Health
    \/ ChatBegin
    \/ ChatAuth
    \/ ChatParse
    \/ ChatRetrieve
    \/ ChatComplete
    \/ ChatReturn

-----------------------------------------------------------------------------
(* src/app/rag.py                                                          *)

\* size of the simulated document store (the source lists five documents)
NumDocuments == 3

\* len(content) and len(category) of the store's documents, in order
DocContentLength == <<34, 31, 23, 27, 27>>
DocCategoryLength == <<7, 7, 9, 7, 9>>

\* random.uniform(similarity_threshold, 1.0), in tenths
Scores == {7, 10}

\* a document dict without a similarity_score key
NoScore == 0

\* random.sample(self.documents, k) for k >= 0: k distinct documents in any order
Samples(k) ==
    {s \in [1..k -> 1..NumDocuments] : \A i, j \in 1..k : i # j => s[i] # s[j]}

Min(a, b) == IF a <= b THEN a ELSE b

RECURSIVE InsertDesc(_, _, _)
\* x placed after every element whose key is not smaller
InsertDesc(sorted, x, key) ==
    IF sorted = << >> THEN <<x>>
    ELSE IF key[sorted[1]] >= key[x]
         THEN <<sorted[1]>> \o InsertDesc(Tail(sorted), x, key)
         ELSE <<x>> \o sorted

RECURSIVE SortDesc(_, _)
\* list.sort(key=..., reverse=True): descending and stable
SortDesc(list, key) ==
    IF list = << >> THEN << >>
    ELSE InsertDesc(SortDesc(SubSeq(list, 1, Len(list) - 1), key),
                    list[Len(list)], key)

\* the store after the loop that writes doc["similarity_score"] into the
\* sampled dicts, which are the store's own dicts
ScoredStore(store, sample, scores) ==
    [d \in DOMAIN store |->
        IF \E i \in DOMAIN sample : sample[i] = d
        THEN scores[CHOOSE i \in DOMAIN sample : sample[i] = d]
        ELSE store[d]]

\* the search inside retrieve_documents' try block raises: random.sample
\* rejects a negative k, or the backend put in its place fails
SearchRaises(top_k, fault) == top_k < 0 \/ fault

NoSearchArgs == [top_k |-> 0, sample |-> << >>]

\* retrieve_documents returning the sample as random.sample produced it
retrieve_documents_unsorted(store, top_k, fault, sample, scores) ==
    IF SearchRaises(top_k, fault)
    THEN Raise(IF top_k < 0 THEN "ValueError" ELSE "RuntimeError")
    ELSE Return(sample)

\* RAGClient.retrieve_documents(query, top_k): the list returned (documents
\* shown by their index in the store) or the exception raised
retrieve_documents(store, top_k, fault, sample, scores) ==
    IF SearchRaises(top_k, fault)
    THEN Raise(IF top_k < 0 THEN "ValueError" ELSE "RuntimeError")
    ELSE Return(SortDesc(sample, ScoredStore(store, sample, scores)))

\* RAGClient.documents after retrieve_documents
StoreAfterRetrieve(store, top_k, fault, sample, scores) ==
    IF SearchRaises(top_k, fault) THEN store ELSE ScoredStore(store, sample, scores)

RECURSIVE SumLengths(_)
SumLengths(docs) ==
    IF docs = << >> THEN 0
    ELSE 1 + DocCategoryLength[docs[1]] + 2 + DocContentLength[docs[1]]
         + SumLengths(Tail(docs))

\* RAGClient.build_context(documents): the parts joined by "\n\n" and len(context)
build_context(docs) ==
    [none |-> FALSE,
     docs |-> docs,
     len |-> SumLengths(docs) + (IF Len(docs) > 1 THEN 2 * (Len(docs) - 1) ELSE 0)]

NoAppContext == [none |-> TRUE, docs |-> << >>, len |-> 0]

-----------------------------------------------------------------------------
(* src/app/llm.py                                                          *)

NoSafetyResult == [is_safe |-> TRUE, blocked |-> FALSE, categories |-> << >>,
                   checked |-> FALSE]

\* LLMClient.check_safety(text); `blocked` is random.random() < 0.1
check_safety(text, blocked) ==
    [is_safe |-> ~ blocked,
     blocked |-> blocked,
     categories |-> IF blocked THEN <<"hate", "violence">> ELSE << >>,
     checked |-> TRUE]

\* len(f"Response to query (length: {len(prompt)} chars)")
ResponseLength(n) == 34 + (IF n < 10 THEN 1 ELSE IF n < 100 THEN 2 ELSE 3)

\* LLMClient.call_llm(prompt, context, model): the dict returned (latency
\* left out) or the exception raised
call_llm(prompt, ctx, model, fault) ==
    IF fault
    THEN Raise("RuntimeError")
    ELSE Return([response |-> [about |-> prompt.len, len |-> ResponseLength(prompt.len)],
                 model |-> model,
                 tokens |-> [prompt |-> prompt.len \div 4,
                             completion |-> 150,
                             total |-> prompt.len \div 4 + 150]])

-----------------------------------------------------------------------------
(* src/app/main.py: GenAIApp.process_request                               *)

\* len(user_query) of the queries tried
QueryLengths == {0, 22}

NoQuery == [t |-> "none"]

NoResult == [kind |-> "none"]

NoSpan == [status |-> "UNSET", description |-> "", attrs |-> << >>, events |-> << >>]

NoAdds == [requests |-> << >>, errors |-> << >>, tokens |-> << >>]

NoLlmCalls == [check_safety |-> 0, call_llm |-> 0]

\* span.set_status(Status(code, description))
SetStatus(span, code, description) ==
    [span EXCEPT !.status = code, !.description = description]

\* span.set_attributes(mapping)
SetAttributes(span, mapping) ==
    [span EXCEPT !.attrs = mapping @@ span.attrs]

\* span.add_event(name, attributes=mapping)
AddEvent(span, name, mapping) ==
    [span EXCEPT !.events = Append(span.events, [name |-> name, attrs |-> mapping])]

\* ",".join(categories)
JoinCategories(categories) ==
    IF categories = << >> THEN << >> ELSE <<categories, ",">>

AppInit ==
    /\ documents = [d \in 1..NumDocuments |-> NoScore]
    /\ retrieved = NoResult
    /\ app_pc = "idle"
    /\ user_query = NoQuery
    /\ use_rag = FALSE
    /\ rag_text = NoAppContext
    /\ safety_result = NoSafetyResult
    /\ search_failed = FALSE
    /\ search_args = NoSearchArgs
    /\ root_span = NoSpan
    /\ safety_span = NoSpan
    /\ counter_adds = NoAdds
    /\ llm_calls = NoLlmCalls
    /\ returned = NoResult

\* SafetyBlocks with the `not` dropped
SafetyBlocksInverted(checked) == checked.is_safe

\* `if not safety_result["is_safe"]`, line 86
SafetyBlocks(checked) == ~ checked.is_safe

\* the except clause of process_request, lines 166-176
ExceptHandler(exc) ==
    /\ root_span' = AddEvent(SetStatus(root_span, "ERROR", <<"str(e)", exc>>),
                             "request.error",
                             [error_type |-> exc, error_message |-> <<"str(e)", exc>>])
    /\ counter_adds' = [counter_adds EXCEPT
                           !.errors = Append(@, [error_type |-> exc])]
    /\ returned' = Raise(exc)
    /\ app_pc' = "done"

\* a caller uses the RAG client directly: retrieve_documents(query, top_k)
RetrieveDocuments ==
    /\ app_pc = "idle"
    /\ \E top_k \in {-1, 0, 1, 3}, fault \in BOOLEAN :
         \E sample \in Samples(Min(IF top_k < 0 THEN 0 ELSE top_k, NumDocuments)) :
           \E scores \in [DOMAIN sample -> Scores] :
             /\ retrieved' = retrieve_documents(documents, top_k, fault, sample, scores)
             /\ documents' = StoreAfterRetrieve(documents, top_k, fault, sample, scores)
             /\ search_failed' = SearchRaises(top_k, fault)
             /\ search_args' = [top_k |-> top_k, sample |-> sample]
    /\ UNCHANGED <<app_pc, user_query, use_rag, rag_text, safety_result, root_span,
                   safety_span, counter_adds, llm_calls, returned>>
    /\ UNCHANGED exceptApp

\* process_request(user_query, use_rag), lines 49-64
AppBegin ==
    /\ app_pc = "idle"
    /\ \E n \in QueryLengths : user_query' = PStr("q", n)
    /\ \E flag \in BOOLEAN : use_rag' = flag
    /\ root_span' = SetAttributes(NoSpan,
                        [request_query_length |-> PInt(user_query'.len),
                         request_use_rag |-> PBool(use_rag')])
    /\ counter_adds' = [NoAdds EXCEPT !.requests = <<[use_rag |-> use_rag']>>]
    /\ retrieved' = NoResult
    /\ search_failed' = FALSE
    /\ search_args' = NoSearchArgs
    /\ app_pc' = IF use_rag' THEN "rag" ELSE "safety"
    /\ UNCHANGED <<documents, rag_text, safety_result, safety_span, llm_calls,
                   returned>>
    /\ UNCHANGED exceptApp

\* process_request, lines 66-80: RAG retrieval, top_k = 3
AppRag ==
    /\ app_pc = "rag"
    /\ \E fault \in BOOLEAN :
         \E sample \in Samples(Min(3, NumDocuments)) :
           \E scores \in [DOMAIN sample -> Scores] :
             LET docs == retrieve_documents(documents, 3, fault, sample, scores)
             IN /\ retrieved' = docs
                /\ documents' = StoreAfterRetrieve(documents, 3, fault, sample, scores)
                /\ search_failed' = SearchRaises(3, fault)
                /\ search_args' = [top_k |-> 3, sample |-> sample]
                /\ IF docs.kind = "raise"
                   THEN /\ ExceptHandler(docs.exc)
                        /\ UNCHANGED rag_text
                   ELSE /\ rag_text' = build_context(docs.value)
                        /\ app_pc' = "safety"
                        /\ UNCHANGED <<root_span, counter_adds, returned>>
    /\ UNCHANGED <<user_query, use_rag, safety_result, safety_span, llm_calls>>
    /\ UNCHANGED exceptApp

\* process_request, lines 82-104: safety check on the user query
AppSafety ==
    /\ app_pc = "safety"
    /\ llm_calls' = [llm_calls EXCEPT !.check_safety = @ + 1]
    /\ \E blocked \in BOOLEAN :
         LET checked == check_safety(user_query, blocked)
         IN /\ safety_result' = checked
            /\ IF SafetyBlocks(checked)
               THEN /\ safety_span' = AddEvent(safety_span, "request.blocked",
                           [blocked_categories |->
                               JoinCategories(checked.categories)])
                    /\ root_span' = SetAttributes(
                           SetStatus(root_span, "ERROR",
                                     "Content blocked by safety filter"),
                           [request_blocked |-> PBool(TRUE),
                            request_blocked_reason |-> PStr("safety_filter", 13)])
                    /\ counter_adds' = [counter_adds EXCEPT
                           !.errors = Append(@, [error_type |-> "safety_blocked"])]
                    /\ returned' = Return([blocked |-> TRUE,
                                           reason |-> "Content blocked by safety filter",
                                           categories |-> checked.categories])
                    /\ app_pc' = "done"
               ELSE /\ app_pc' = "llm"
                    /\ UNCHANGED <<safety_span, root_span, counter_adds, returned>>
    /\ UNCHANGED <<documents, retrieved, search_failed, search_args, user_query,
                   use_rag, rag_text>>
    /\ UNCHANGED exceptApp

\* process_request, lines 106-164: the LLM call and the final response
AppLlm ==
    /\ app_pc = "llm"
    /\ llm_calls' = [llm_calls EXCEPT !.call_llm = @ + 1]
    /\ \E fault \in BOOLEAN :
         LET llm_response == call_llm(user_query, rag_text, "gpt-4", fault)
         IN IF llm_response.kind = "raise"
            THEN ExceptHandler(llm_response.exc)
            ELSE LET tokens == llm_response.value.tokens
                     model == llm_response.value.model
                 IN /\ counter_adds' = [counter_adds EXCEPT !.tokens =
                           <<[amount |-> tokens.total, token_type |-> "total",
                              model |-> model],
                             [amount |-> tokens.prompt, token_type |-> "prompt",
                              model |-> model],
                             [amount |-> tokens.completion,
                              token_type |-> "completion", model |-> model]>>]
                    /\ root_span' = SetAttributes(
                           SetStatus(
                               AddEvent(root_span, "request.complete",
                                        [request_total_tokens |-> PInt(tokens.total),
                                         request_success |-> PBool(TRUE)]),
                               "OK", ""),
                           [request_success |-> PBool(TRUE)])
                    /\ returned' = Return(
                           [response |-> llm_response.value.response,
                            model |-> model,
                            tokens |-> tokens,
                            rag_used |-> use_rag,
                            rag_metadata |->
                               IF use_rag
                               THEN [documents_retrieved |-> Len(rag_text.docs),
                                     context_length |-> rag_text.len]
                               ELSE [none |-> TRUE]])
                    /\ app_pc' = "done"
    /\ UNCHANGED <<documents, retrieved, search_failed, search_args, user_query,
                   use_rag, rag_text, safety_result, safety_span>>
    /\ UNCHANGED exceptApp

\* process_request has returned or raised; its locals and spans are gone
AppReturn ==
    /\ app_pc = "done"
    /\ app_pc' = "idle"
    /\ retrieved' = NoResult
    /\ user_query' = NoQuery
    /\ use_rag' = FALSE
    /\ rag_text' = NoAppContext
    /\ safety_result' = NoSafetyResult
    /\ search_failed' = FALSE
    /\ search_args' = NoSearchArgs
    /\ root_span' = NoSpan
    /\ safety_span' = NoSpan
    /\ counter_adds' = NoAdds
    /\ llm_calls' = NoLlmCalls
    /\ returned' = NoResult
    /\ UNCHANGED documents
    /\ UNCHANGED exceptApp

AppNext ==
    \/ RetrieveDocuments
    \/ AppBegin
    \/ AppRag
    \/ AppSafety
    \/ AppLlm
    \/ AppReturn

-----------------------------------------------------------------------------
(* src/backend/api/function_app.py: the multi-turn chat function           *)

\* str.startswith(prefix)
StartsWith(s, prefix) ==
    Len(s) >= Len(prefix) /\ SubSeq(s, 1, Len(prefix)) = prefix

\* str.replace(old, new): every occurrence, left to right
RECURSIVE Replace(_, _, _)
Replace(s, old, new) ==
    IF Len(s) < Len(old) THEN s
    ELSE IF SubSeq(s, 1, Len(old)) = old
    THEN new \o Replace(SubSeq(s, Len(old) + 1, Len(s)), old, new)
    ELSE <<s[1]>> \o Replace(Tail(s), old, new)

\* 'Bearer '
sBearerSpace == <<"B","e","a","r","e","r"," ">>

\* req.headers.get('Authorization', '')
HeaderOrEmpty(h) == IF IsNone(h) THEN << >> ELSE h

\* validate_token(req): the mock user info, or None
validate_token(h) ==
    IF ~ StartsWith(HeaderOrEmpty(h), sBearerSpace)
    THEN PNone
    ELSE IF Replace(HeaderOrEmpty(h), sBearerSpace, << >>) = << >>
    THEN PNone
    ELSE PDict([user_id |-> PStr("demo_user", 9), name |-> PStr("Demo User", 9)])

\* the Authorization headers tried: those of src/api and an empty bearer token
BackendHeaders == Headers \cup {sBearerSpace}

\* the environment of the function app: each endpoint unset, or set
BackendEnvs ==
    [{"AZURE_OPENAI_ENDPOINT", "AZURE_SEARCH_ENDPOINT"} -> {None, <<"e">>}]

\* request bodies: no JSON, JSON that is no object, and objects whose
\* `messages` is missing, empty, or a list of role/content dicts
BackendBodies ==
    {InvalidJsonBody, JsonBody(PNone)}
    \cup {JsonBody(PDict(d)) :
            d \in {<< >>,
                   [messages |-> PList(0)],
                   [messages |-> PList(1)],
                   [messages |-> PList(2), use_rag |-> PBool(TRUE)],
                   [messages |-> PList(1), use_rag |-> PBool(FALSE)]}}

\* search_documents(query, search_endpoint): the number of documents in the
\* list returned; [] when the search raised
search_documents(outcome) ==
    IF outcome.kind = "raise" THEN 0 ELSE outcome.value

\* what search_client.search does: raise, or yield up to 3 results
BackendSearchOutcomes ==
    {Raise("HttpResponseError")} \cup {Return(n) : n \in 0..MaxDocs}

\* what client.chat.completions.create does, as generate_chat_response passes
\* it on: the exception re-raised, or the dict returned
GenerateOutcomes ==
    {Raise("HttpResponseError")}
    \cup {Return([message |-> "answer",
                  usage |-> [prompt_tokens |-> 10, completion_tokens |-> 5,
                             total_tokens |-> 15],
                  content_filter |-> cf,
                  finish_reason |-> "stop"]) : cf \in {"none", "flagged"}}

NoBackendSpan == [status |-> "UNSET", description |-> "", attrs |-> << >>]

NoBackendMetrics == [requests |-> << >>, latency |-> 0, tokens |-> << >>]

\* span.set_attribute(key, value)
SetAttribute(span, key, value) ==
    [span EXCEPT !.attrs =
        [k \in DOMAIN span.attrs \cup {key} |->
            IF k = key THEN value ELSE span.attrs[k]]]

\* a func.HttpResponse built without the headers argument
BareResponse(status_code, json_body) ==
    [status_code |-> status_code, body |-> json_body, headers |-> << >>]

\* the except clause of chat(), lines 278-296: the response it returns
BackendExceptResponse(correlation_id) ==
    HttpResponse(500, [error |-> "Internal server error",
                       correlation_id |-> correlation_id], correlation_id)

\* the except clause of chat(), lines 278-296: span and counter
BackendExcept(exc, span) ==
    /\ be_span' = [span EXCEPT !.status = "ERROR", !.description = exc]
    /\ be_metrics' = [be_metrics EXCEPT
                        !.requests = Append(@, [status |-> "error"])]
    /\ be_resp' = BackendExceptResponse(be_cid)
    /\ be_pc' = "done"

BackendInit ==
    /\ be_env = [name \in {"AZURE_OPENAI_ENDPOINT", "AZURE_SEARCH_ENDPOINT"} |-> None]
    /\ be_pc = "idle"
    /\ be_cid = ""
    /\ be_hdr = None
    /\ be_body = NoBody
    /\ be_span = NoBackendSpan
    /\ be_metrics = NoBackendMetrics
    /\ be_docs = 0
    /\ be_resp = NoResponse

\* chat(req), lines 159-164: the correlation id and the root span
BackendBegin ==
    /\ be_pc = "idle"
    /\ \E c \in CorrIds, h \in BackendHeaders :
         /\ be_cid' = c
         /\ be_hdr' = h
         /\ be_span' = SetAttribute(NoBackendSpan, "correlation_id", c)
    /\ be_pc' = "auth"
    /\ UNCHANGED <<be_env, be_body, be_metrics, be_docs, be_resp>>
    /\ UNCHANGED exceptBackend

\* chat(req), lines 167-177: authentication
BackendAuth ==
    /\ be_pc = "auth"
    /\ LET user_info == validate_token(be_hdr)
       IN IF ~ Truthy(user_info)
          THEN /\ be_span' = [be_span EXCEPT !.status = "ERROR",
                                            !.description = "Authentication failed"]
               /\ be_resp' = BareResponse(401, [error |-> "Unauthorized"])
               /\ be_pc' = "done"
          ELSE /\ be_span' = SetAttribute(be_span, "user_id", user_info.d.user_id)
               /\ be_pc' = "parse"
               /\ UNCHANGED be_resp
    /\ UNCHANGED <<be_env, be_cid, be_hdr, be_body, be_metrics, be_docs>>
    /\ UNCHANGED exceptBackend

\* chat(req), lines 179-209: the body is parsed, the messages and the
\* configuration are checked
BackendParse ==
    /\ be_pc = "parse"
    /\ \E b \in BackendBodies :
         /\ be_body' = b
         /\ IF get_json(b).kind = "raise"
            THEN /\ be_span' = [be_span EXCEPT !.status = "ERROR",
                                              !.description = "Invalid JSON"]
                 /\ be_resp' = BareResponse(400,
                                   [error |-> "Invalid JSON in request body"])
                 /\ be_pc' = "done"
                 /\ UNCHANGED be_metrics
            ELSE IF b.json.t # "dict"
            THEN BackendExcept("AttributeError", be_span)
            ELSE IF ~ Truthy(DictGet(b.json, "messages", PList(0)))
            THEN /\ be_span' = [be_span EXCEPT !.status = "ERROR",
                                              !.description = "No messages provided"]
                 /\ be_resp' = BareResponse(400, [error |-> "No messages provided"])
                 /\ be_pc' = "done"
                 /\ UNCHANGED be_metrics
            ELSE LET counted ==
                        SetAttribute(
                            SetAttribute(be_span, "message_count",
                                         DictGet(b.json, "messages", PList(0)).len),
                            "use_rag", DictGet(b.json, "use_rag", PBool(FALSE)))
                 IN IF NotStr(be_env["AZURE_OPENAI_ENDPOINT"])
                    THEN BackendExcept("ValueError", counted)
                    ELSE /\ be_span' = counted
                         /\ be_pc' = "retrieve"
                         /\ UNCHANGED <<be_metrics, be_resp>>
    /\ UNCHANGED <<be_env, be_cid, be_hdr, be_docs>>
    /\ UNCHANGED exceptBackend

\* chat(req), lines 211-220: the optional search
BackendRetrieve ==
    /\ be_pc = "retrieve"
    /\ IF /\ Truthy(DictGet(be_body.json, "use_rag", PBool(FALSE)))
          /\ ~ NotStr(be_env["AZURE_SEARCH_ENDPOINT"])
       THEN \E outcome \in BackendSearchOutcomes :
                be_docs' = search_documents(outcome)
       ELSE be_docs' = 0
    /\ be_pc' = "generate"
    /\ UNCHANGED <<be_env, be_cid, be_hdr, be_body, be_span, be_metrics, be_resp>>
    /\ UNCHANGED exceptBackend

\* chat(req), lines 222-276: the completion, the metrics and the response
BackendGenerate ==
    /\ be_pc = "generate"
    /\ \E outcome \in GenerateOutcomes :
         IF outcome.kind = "raise"
         THEN BackendExcept(outcome.exc, be_span)
         ELSE LET response_data == outcome.value
                  usage == response_data.usage
              IN /\ be_metrics' =
                       [requests |-> Append(be_metrics.requests,
                                            [status |-> "success"]),
                        latency |-> be_metrics.latency + 1,
                        tokens |-> be_metrics.tokens \o
                            <<[type |-> "total", n |-> usage.total_tokens],
                              [type |-> "prompt", n |-> usage.prompt_tokens],
                              [type |-> "completion",
                               n |-> usage.completion_tokens]>>]
                 /\ be_span' = [SetAttribute(be_span, "latency_seconds", "latency")
                                    EXCEPT !.status = "OK"]
                 /\ be_resp' = HttpResponse(200,
                       [correlation_id |-> be_cid,
                        message |-> response_data.message,
                        usage |-> usage,
                        latency_ms |-> "latency",
                        context_documents_used |-> be_docs,
                        finish_reason |-> response_data.finish_reason,
                        content_filter |-> response_data.content_filter],
                       be_cid)
                 /\ be_pc' = "done"
    /\ UNCHANGED <<be_env, be_cid, be_hdr, be_body, be_docs>>
    /\ UNCHANGED exceptBackend

\* the response is handed to the host; the next request starts afresh, in an
\* environment that may have been redeployed
BackendReturn ==
    /\ be_pc = "done"
    /\ be_pc' = "idle"
    /\ be_env' \in BackendEnvs
    /\ be_cid' = ""
    /\ be_hdr' = None
    /\ be_body' = NoBody
    /\ be_span' = NoBackendSpan
    /\ be_metrics' = NoBackendMetrics
    /\ be_docs' = 0
    /\ be_resp' = NoResponse
    /\ UNCHANGED exceptBackend

BackendNext ==
    \/ BackendBegin
    \/ BackendAuth
    \/ BackendParse
    \/ BackendRetrieve
    \/ BackendGenerate
    \/ BackendReturn

(* The telemetry helpers: src/api/telemetry.py add_span_attributes,        *)
(* src/app/observability.py add_event_metadata and set_span_metadata       *)

kPrompt == <<"p","r","o","m","p","t">>
kResponse == <<"r","e","s","p","o","n","s","e">>
kRawText == <<"r","a","w","_","t","e","x","t">>

\* the list both helpers of observability.py filter with
MetadataSensitive == {kPrompt, kResponse, kRawText, kContent, kMessage}

\* the dict comprehension of add_event_metadata and of set_span_metadata:
\* `k not in [...]`
SafeMetadata(metadata) ==
    [k \in {key \in DOMAIN metadata : key \notin MetadataSensitive} |-> metadata[k]]

\* set_span_metadata(span, **attributes): what span.set_attributes receives
set_span_metadata(attributes) == SafeMetadata(attributes)

\* add_event_metadata(span, event_name, **metadata): the attributes of the
\* event added
add_event_metadata(metadata) == SafeMetadata(metadata)

\* the keys of the mappings tried
TelemetryKeys ==
    {kContent, kMessage, kQuery, kText, kPrompt, kResponse, kRawText,
     kModel, kDocCount}

\* the mappings tried: any of the keys, each with a one-character string,
\* rag_doc_count with the number 0 or 2
TelemetryMappings ==
    {[k \in keys |-> IF k = kDocCount THEN PInt(n) ELSE PStr("v", 1)] :
        keys \in SUBSET TelemetryKeys, n \in {0, 2}}

TelemetryInit ==
    /\ tel_helper = "none"
    /\ tel_in = << >>
    /\ tel_out = << >>

\* one call of a helper on a span that has no attributes yet
RecordTelemetry ==
    /\ tel_helper = "none"
    /\ \E helper \in {"add_span_attributes", "set_span_metadata",
                      "add_event_metadata"} :
         \E mapping \in TelemetryMappings :
            /\ tel_helper' = helper
            /\ tel_in' = mapping
            /\ tel_out' = CASE helper = "add_span_attributes" ->
                                   AddSpanAttributes(<< >>, mapping)
                            [] helper = "set_span_metadata" ->
                                   set_span_metadata(mapping)
                            [] helper = "add_event_metadata" ->
                                   add_event_metadata(mapping)
    /\ UNCHANGED exceptTelemetry

\* the span ends; the next call is made on a new span
EndSpan ==
    /\ tel_helper # "none"
    /\ tel_helper' = "none"
    /\ tel_in' = << >>
    /\ tel_out' = << >>
    /\ UNCHANGED exceptTelemetry

TelemetryNext == RecordTelemetry \/ EndSpan

(* src/api/chat.py lines 26-76 and src/api/auth.py lines 14-30 when several *)
(* requests run at once: the host runs synchronous functions on a pool of  *)
(* worker threads, and the getters take no lock                            *)

\* worker threads of the host
MaxThreads == 2
Threads == 1..MaxThreads

Getters == {"credential", "openai", "search", "jwks"}

NoThread == [pc |-> "idle", getter |-> "none", mine |-> 0, got |-> 0]

LazyInit ==
    /\ shared = [g \in Getters |-> 0]
    /\ built = [g \in Getters |-> 0]
    /\ threads = [t \in Threads |-> NoThread]

\* a request on thread t calls one of the getters, with the endpoints and the
\* issuer configured
LazyCall(t) ==
    /\ threads[t].pc \in {"idle", "done"}
    /\ \E g \in Getters :
         threads' = [threads EXCEPT ![t] = [NoThread EXCEPT !.pc = "check",
                                                            !.getter = g]]
    /\ UNCHANGED <<shared, built>>
    /\ UNCHANGED exceptLazy

\* `if _openai_client is None` (chat.py lines 35, 43, 61), or the cache lookup
\* of lru_cache for get_jwks_client
LazyCheck(t) ==
    /\ threads[t].pc = "check"
    /\ threads' = [threads EXCEPT ![t].pc =
            IF shared[threads[t].getter] # 0 THEN "return"
            ELSE IF threads[t].getter \in {"openai", "search"}
            THEN "credential"
            ELSE "construct"]
    /\ UNCHANGED <<shared, built>>
    /\ UNCHANGED exceptLazy

\* credential = get_credential() inside get_openai_client and
\* get_search_client (lines 48, 68): the whole call
LazyCredential(t) ==
    /\ threads[t].pc = "credential"
    /\ IF shared["credential"] = 0
       THEN /\ built' = [built EXCEPT !["credential"] = @ + 1]
            /\ shared' = [shared EXCEPT !["credential"] = built["credential"] + 1]
       ELSE UNCHANGED <<shared, built>>
    /\ threads' = [threads EXCEPT ![t].pc = "construct"]
    /\ UNCHANGED exceptLazy

\* the object is constructed and stored: the assignment to the global
\* (lines 36, 49, 69), or lru_cache storing the result unless another thread
\* has stored one meanwhile
LazyConstruct(t) ==
    /\ threads[t].pc = "construct"
    /\ LET g == threads[t].getter
           instance == built[g] + 1
       IN /\ built' = [built EXCEPT ![g] = instance]
          /\ shared' = [shared EXCEPT ![g] =
                IF g = "jwks" /\ shared[g] # 0 THEN shared[g] ELSE instance]
          /\ threads' = [threads EXCEPT ![t].pc = "return", ![t].mine = instance]
    /\ UNCHANGED exceptLazy

\* `return _openai_client` (lines 37, 55, 76) reads the global; lru_cache
\* returns the result of this thread's own call, or the cached one on a hit
LazyReturn(t) ==
    /\ threads[t].pc = "return"
    /\ threads' = [threads EXCEPT
            ![t].pc = "done",
            ![t].got = IF threads[t].getter = "jwks" /\ threads[t].mine # 0
                       THEN threads[t].mine
                       ELSE shared[threads[t].getter]]
    /\ UNCHANGED <<shared, built>>
    /\ UNCHANGED exceptLazy

LazyNext ==
    \E t \in Threads :
        \/ LazyCall(t)
        \/ LazyCheck(t)
        \/ LazyCredential(t)
        \/ LazyConstruct(t)
        \/ LazyReturn(t)

-----------------------------------------------------------------------------
(* src/api/auth.py: validate_jwt_token called again and again while the    *)
(* configuration changes between the calls                                 *)

AuthEnvNames == {"JWT_VALIDATION_ENABLED", "ENTRA_ISSUER", "ENTRA_AUDIENCE"}

\* the values the three variables are changed to between calls: two issuers
AuthEnvTexts(name) ==
    CASE name = "JWT_VALIDATION_ENABLED" -> {sTrue, sFalse}
      [] name = "ENTRA_ISSUER" -> {<<"i","/">>, <<"j">>}
      [] name = "ENTRA_AUDIENCE" -> {<<"a">>}

\* os.environ is changed between two calls
AuthSetEnv ==
    /\ pc = "idle"
    /\ \E name \in AuthEnvNames :
         \E text \in AuthEnvTexts(name) \cup {None} :
            /\ text # env[name]
            /\ env' = [env EXCEPT ![name] = text]
    /\ UNCHANGED exceptApi
    /\ UNCHANGED <<jwksCache, jwksUsed, clients, pc, handler, cid, hdr, verify,
                   body, rootAttrs, completionAttrs, rootStatus, rag_context,
                   messages, calls, resp>>

\* validate_jwt_token(token), lines 33-85, called on its own
ValidateJwtToken ==
    /\ pc = "idle"
    /\ \E verdict \in Verdicts :
         /\ verify' = IF AsksPyJWT THEN verdict ELSE "unasked"
         /\ jwksCache' = IF ReachesJwksClient
                         THEN <<get_jwks_client>> ELSE jwksCache
         /\ jwksUsed' = JwksUse
    /\ UNCHANGED exceptApi
    /\ UNCHANGED <<env, clients, pc, handler, cid, hdr, body, rootAttrs,
                   completionAttrs, rootStatus, rag_context, messages, calls,
                   resp>>

AuthNext == AuthSetEnv \/ ValidateJwtToken

-----------------------------------------------------------------------------
(* src/api/auth.py lines 88-105: extract_bearer_token over header shapes   *)

\* the words a header is put together from: the scheme in several letter
\* cases, another scheme, a token, a longer word beginning with the scheme
HeaderWords ==
    {<<"B","e","a","r","e","r">>, sBearer, <<"B","E","A","R","E","R">>,
     <<"B","a","s","i","c">>, <<"t","1">>, <<"b","e","a","r","e","r","s">>}

\* whitespace between two words, and before the first or after the last
HeaderGaps == {<<" ">>, <<" ", " ">>, <<"\t">>}
HeaderPads == {<< >>, <<" ">>}

\* headers of one, two and three words, the absent and the empty header
HeaderShapes ==
    {None, << >>, <<" ">>}
    \cup {l \o a \o r : l \in HeaderPads, a \in HeaderWords, r \in HeaderPads}
    \cup {l \o a \o g \o b \o r :
            l \in HeaderPads, a \in HeaderWords, g \in HeaderGaps,
            b \in HeaderWords, r \in HeaderPads}
    \cup {a \o <<" ">> \o b \o g \o c :
            a \in HeaderWords, b \in HeaderWords, g \in HeaderGaps,
            c \in HeaderWords}

NoBearerCall == [called |-> FALSE]

BearerInit ==
    /\ ebt_header = NoBearerCall
    /\ ebt_token = None

\* extract_bearer_token(authorization_header) is called
ExtractBearerToken ==
    /\ ~ ebt_header.called
    /\ \E authorization_header \in HeaderShapes :
         /\ ebt_header' = [called |-> TRUE, header |-> authorization_header]
         /\ ebt_token' = extract_bearer_token(authorization_header)
    /\ UNCHANGED exceptBearer

\* the caller has looked at the result
BearerLookedAt ==
    /\ ebt_header.called
    /\ ebt_header' = NoBearerCall
    /\ ebt_token' = None
    /\ UNCHANGED exceptBearer

BearerNext == ExtractBearerToken \/ BearerLookedAt

-----------------------------------------------------------------------------
(* Specifications                                                          *)

Init ==
    /\ ApiInit
    /\ AppInit
    /\ BackendInit
    /\ TelemetryInit
    /\ LazyInit
    /\ BearerInit

\* the functions of src/api
Next == ApiNext

Spec == Init /\ [][Next]_vars

\* the GenAI application of src/app
SpecApp == Init /\ [][AppNext]_vars

\* the function app of src/backend
SpecBackend == Init /\ [][BackendNext]_vars

\* the telemetry helpers of src/api/telemetry.py and src/app/observability.py
SpecTelemetry == Init /\ [][TelemetryNext]_vars

\* the lazily initialised objects of src/api under concurrent requests
SpecLazy == Init /\ [][LazyNext]_vars

\* validate_jwt_token under a changing configuration
SpecAuth == Init /\ [][AuthNext]_vars

\* extract_bearer_token over header shapes
SpecBearer == Init /\ [][BearerNext]_vars

-----------------------------------------------------------------------------
(* Properties                                                              *)

\* JWT validation is enabled: the flag is unset or "true" in any letter case
JwtOn ==
    \/ IsNone(env["JWT_VALIDATION_ENABLED"])
    \/ Lower(env["JWT_VALIDATION_ENABLED"]) = sTrue

\* JWT_VALIDATION_ENABLED=false
JwtOff ==
    /\ ~ IsNone(env["JWT_VALIDATION_ENABLED"])
    /\ Lower(env["JWT_VALIDATION_ENABLED"]) = sFalse

\* the request in hand made no backend call and did not read its body
NothingRan ==
    /\ calls.parse = 0
    /\ body = NoBody
    /\ calls.rag = 0
    /\ calls.search = 0
    /\ calls.complete = 0
    /\ ~ messages.sent

\* C1: every response of POST /chat and GET /health in src/api carries a
\* correlationId in its body that equals its X-Correlation-ID header, and both
\* are the one id generated at the start of the request.
C1_CorrelationIdInBodyAndHeader ==
    pc = "done" =>
        /\ cid \in CorrIds
        /\ "correlationId" \in DOMAIN resp.body
        /\ "X-Correlation-ID" \in DOMAIN resp.headers
        /\ resp.body.correlationId = cid
        /\ resp.headers["X-Correlation-ID"] = cid

C1_Witness ==
    /\ pc = "done"
    /\ handler = "chat"
    /\ resp.status_code = 500
    /\ resp.body.error = "Internal Server Error"
    /\ resp.body.correlationId = cid
    /\ resp.headers["X-Correlation-ID"] = cid

\* C2: when check_safety returns is_safe = false, process_request never calls
\* call_llm, returns the blocked outcome with exactly the categories of the
\* safety check, leaves the root span with ERROR status, and adds to the error
\* counter exactly once, with error_type = safety_blocked.
C2_UnsafeNeverCompletes ==
    (safety_result.checked /\ ~ safety_result.is_safe) =>
        /\ app_pc = "done"
        /\ llm_calls.call_llm = 0
        /\ returned.kind = "return"
        /\ returned.value.blocked = TRUE
        /\ returned.value.categories = safety_result.categories
        /\ root_span.status = "ERROR"
        /\ counter_adds.errors = <<[error_type |-> "safety_blocked"]>>

C2_Witness ==
    /\ app_pc = "done"
    /\ use_rag
    /\ safety_result.checked
    /\ ~ safety_result.is_safe
    /\ returned.value.categories = <<"hate", "violence">>

\* the ways verification of a presented token fails
FailedVerdicts == Verdicts \ {"valid", "valid_no_sub"}

\* C3: with validation enabled and issuer and audience configured, every
\* failed verification of a presented bearer token gives 401 "Unauthorized",
\* never a 500.
C3_FailedVerificationIs401 ==
    (pc = "done" /\ handler = "chat" /\ verify \in FailedVerdicts) =>
        /\ resp.status_code = 401
        /\ resp.body.error = "Unauthorized"

\* C4: with validation enabled, a request whose Authorization header is absent
\* or yields no bearer token gets 401 "Unauthorized"; its body is not parsed
\* and neither backend is called.
C4_MissingTokenIs401 ==
    (handler = "chat" /\ pc # "auth" /\ JwtOn /\ IsNone(token)) =>
        /\ pc = "done"
        /\ resp.status_code = 401
        /\ resp.body.error = "Unauthorized"
        /\ NothingRan

C4_Witness ==
    /\ handler = "chat"
    /\ pc = "done"
    /\ JwtOn
    /\ hdr = <<"B","a","s","i","c"," ","t">>
    /\ resp.status_code = 401

\* C5: with JWT_VALIDATION_ENABLED=false, validate_jwt_token returns the
\* anonymous claim whatever the token, and POST /chat never answers 401 but
\* goes on to parse the body, whatever the Authorization header.
C5_DisabledIsAnonymous ==
    JwtOff =>
        /\ \A verdict \in Verdicts :
             \A tok \in {<<"t">>, <<"x", ".", "y">>} :
                validate_jwt_token(tok, verdict)
                    = Return(PDict([sub |-> PStr("anonymous", 9)]))
        /\ (handler = "chat" /\ pc # "auth") =>
                /\ pc = "parse" \/ calls.parse = 1
                /\ verify = "unasked"
                /\ pc = "done" => resp.status_code # 401
                /\ ~ IsNone(token) =>
                     /\ calls.validate = 1
                     /\ rootAttrs[kUserId] = PStr("anonymous", 9)

C5_Witness ==
    /\ JwtOff
    /\ handler = "chat"
    /\ pc = "done"
    /\ ~ IsNone(token)
    /\ calls.validate = 1
    /\ resp.status_code = 200

\* C6: with validation enabled and a bearer token presented, a missing issuer
\* or audience gives 500 "Service Configuration Error", never 401, and no later
\* phase runs.
C6_MissingConfigIs500 ==
    (/\ handler = "chat"
     /\ pc # "auth"
     /\ JwtOn
     /\ ~ IsNone(token)
     /\ NotStr(env["ENTRA_ISSUER"]) \/ NotStr(env["ENTRA_AUDIENCE"])) =>
        /\ pc = "done"
        /\ resp.status_code = 500
        /\ resp.body.error = "Service Configuration Error"
        /\ NothingRan

C6_Witness ==
    /\ handler = "chat"
    /\ pc = "done"
    /\ JwtOn
    /\ ~ IsNone(token)
    /\ ~ NotStr(env["ENTRA_ISSUER"])
    /\ NotStr(env["ENTRA_AUDIENCE"])
    /\ resp.status_code = 500

\* the body is no JSON, or JSON without a non-empty string `message`
BadBody(b) ==
    \/ ~ b.valid
    \/ b.json.t # "dict"
    \/ DictGet(b.json, "message", PNone).t # "str"
    \/ DictGet(b.json, "message", PNone).len = 0

\* C7: past authentication, a body that is no valid JSON, or valid JSON without
\* a non-empty string `message` (missing, empty, no string, or the JSON value
\* is no object), gives 400 "Bad Request" with a correlationId, never 500.
C7_BadBodyIs400 ==
    (handler = "chat" /\ pc = "done" /\ calls.parse = 1 /\ BadBody(body)) =>
        /\ resp.status_code = 400
        /\ resp.body.error = "Bad Request"
        /\ "correlationId" \in DOMAIN resp.body

\* the request carried a JSON object with a string `message`, and chat() read it
HasStringMessage ==
    /\ handler = "chat"
    /\ calls.parse = 1
    /\ body.valid
    /\ body.json.t = "dict"
    /\ user_message.t = "str"

\* C8: a message of more than 4000 characters is rejected with a 400 whose
\* message names the maximum length; every string message of 1 to 4000
\* characters passes validation; no longer message reaches retrieval or
\* completion.
C8_MessageLengthLimit ==
    /\ HasStringMessage =>
        /\ user_message.len > 4000 =>
             /\ pc = "done"
             /\ resp.status_code = 400
             /\ resp.body.message =
                  <<"Message exceeds maximum length of ", 4000, " characters">>
             /\ calls.rag = 0 /\ calls.search = 0 /\ calls.complete = 0
        /\ user_message.len \in 1..4000 =>
             \/ pc \in {"rag", "complete"}
             \/ pc = "done" /\ resp.status_code # 400
    /\ messages.sent => messages.user.len <= 4000

C8_Witness ==
    /\ HasStringMessage
    /\ pc = "done"
    /\ user_message.len = 4001
    /\ resp.status_code = 400

\* C9: with RAG enabled globally and by the request, a failure of the retrieval
\* backend (no search client, or the search raises) is absorbed: the search
\* yields an empty list, the completion runs without context documents, and
\* the response is 200 when the completion succeeds.
C9_RetrievalFailureAbsorbed ==
    /\ (handler = "chat" /\ pc = "complete"
            /\ Truthy(enable_rag) /\ rag_enabled_global) => calls.rag = 1
    /\ (handler = "chat" /\ calls.rag = 1
            /\ (calls.search = 0 \/ calls.search_raised)) =>
        /\ pc \in {"complete", "done"}
        /\ rag_context = Context(<< >>)
        /\ pc = "done" =>
             IF calls.complete = 1 /\ ~ calls.complete_raised
             THEN /\ resp.status_code = 200
                  /\ messages.sent
                  /\ messages.context = << >>
             ELSE resp.status_code = 500

C9_Witness ==
    /\ handler = "chat"
    /\ pc = "done"
    /\ calls.rag = 1
    /\ calls.search_raised
    /\ resp.status_code = 200

\* C10: retrieve_documents returns an empty sequence instead of raising when
\* the search fails, so process_request with use_rag = true goes on to the
\* safety check and the completion instead of failing.
C10_RetrievalFailureReturnsEmpty ==
    search_failed =>
        /\ retrieved = Return(<< >>)
        /\ app_pc = "done" =>
             /\ llm_calls.check_safety = 1
             /\ returned.kind = "return"

\* C11: POST /chat calls the completion backend only after a safety check of
\* the user's message has run in that request and found it safe.
C11_SafetyBeforeComplete ==
    (handler = "chat" /\ calls.complete = 1) => calls.safety = 1

\* C12: whichever state ends a chat request (401, 400, 500 or success), the
\* request counter is incremented exactly once and the latency is recorded in
\* the histogram exactly once.
C12_CounterAndLatencyOncePerRequest ==
    be_pc = "done" =>
        /\ Len(be_metrics.requests) = 1
        /\ be_metrics.latency = 1

\* C18: every terminal response of the chat function of src/backend, the 401
\* and the 400s included, carries the request's correlation id in its JSON
\* body and in its X-Correlation-ID header.
C18_BackendCorrelationIdEverywhere ==
    be_pc = "done" =>
        /\ be_cid \in CorrIds
        /\ "correlation_id" \in DOMAIN be_resp.body
        /\ be_resp.body.correlation_id = be_cid
        /\ "X-Correlation-ID" \in DOMAIN be_resp.headers
        /\ be_resp.headers["X-Correlation-ID"] = be_cid

\* the denylist of the telemetry filter
Denylist == {kContent, kMessage, kQuery, kText, kPrompt, kResponse, kRawText}

\* C13: for every mapping handed to add_span_attributes, set_span_metadata or
\* add_event_metadata, every key on the denylist content, message, query,
\* text, prompt, response, raw_text is dropped, and the other keys are passed
\* on.
C13_DenylistDroppedOthersPassed ==
    tel_helper # "none" =>
        \A key \in DOMAIN tel_in :
            IF key \in Denylist
            THEN key \notin DOMAIN tel_out
            ELSE key \in DOMAIN tel_out /\ tel_out[key] = tel_in[key]

\* the texts of the messages and of the answers
ContentTexts ==
    {m.text : m \in {f \in MessageFields : f.t = "str" /\ f.len > 0}}
    \cup {o.value.answer : o \in {c \in CompletionOutcomes : c.kind = "return"}}

\* the contents of the documents and the bearer tokens
ContentSequences ==
    {SearchIndex[i].content : i \in DOMAIN SearchIndex}
    \cup ({extract_bearer_token(h) : h \in Headers} \ {None})

\* the attribute keys a span of src/api may carry
MetadataKeys ==
    {kCorrelationId, kUserId, kRagEnabled, kDocCount, kModel, kFinishReason,
     kPromptTokens, kCompletionTokens}

\* no value among these span attributes is a message, an answer, a document
\* content or a token (the deployment name is the one value kept as a
\* sequence of characters)
NoContentIn(attrs) ==
    /\ DOMAIN attrs \subseteq MetadataKeys
    /\ \A k \in DOMAIN attrs :
         attrs[k].t = "str" =>
            IF k = kModel
            THEN attrs[k].text \notin ContentSequences
            ELSE attrs[k].text \notin ContentTexts

FailureCategories ==
    {<<401, "Unauthorized", <<"Missing or invalid authorization token">>>>,
     <<401, "Unauthorized", <<"Invalid authorization token">>>>,
     <<400, "Bad Request", <<"Invalid JSON in request body">>>>,
     <<400, "Bad Request", <<"Missing or invalid 'message' field in request body">>>>,
     <<400, "Bad Request",
       <<"Message exceeds maximum length of ", 4000, " characters">>>>,
     <<500, "Service Configuration Error", <<"Service is not properly configured">>>>,
     <<500, "Internal Server Error", <<"An unexpected error occurred">>>>}

\* C15: every failure body of POST /chat (400, 401, 500) consists of a fixed
\* error label, a fixed message of its category and the correlation id, and
\* of nothing else: no exception text, no part of the submitted message.
C15_FailureBodiesAreFixed ==
    (handler = "chat" /\ pc = "done" /\ resp.status_code >= 400) =>
        /\ DOMAIN resp.body = {"error", "message", "correlationId"}
        /\ resp.body.correlationId = cid
        /\ <<resp.status_code, resp.body.error, resp.body.message>>
               \in FailureCategories

C15_Witness ==
    /\ handler = "chat"
    /\ pc = "done"
    /\ calls.complete_raised
    /\ user_message = PStr("m", 1)
    /\ resp.status_code = 500
    /\ resp.body.message = <<"An unexpected error occurred">>

\* C16: when several requests call get_credential, get_openai_client,
\* get_search_client or get_jwks_client at once for the first time, each
\* object is constructed exactly once and every request receives the same
\* instance.
C16_ConstructedOnceSharedByAll ==
    /\ \A g \in Getters : built[g] <= 1
    /\ \A t, u \in Threads :
         (/\ threads[t].pc = "done"
          /\ threads[u].pc = "done"
          /\ threads[t].getter = threads[u].getter) =>
            threads[t].got = threads[u].got

\* the variable is set to something that is neither true nor false in any
\* letter case
InvalidFlag(name) ==
    /\ ~ IsNone(env[name])
    /\ Lower(env[name]) \notin {sTrue, sFalse}

\* C17: with JWT_VALIDATION_ENABLED set to a value that is no boolean flag,
\* POST /chat behaves as with the default true, so a request without a bearer
\* token gets 401; with RAG_ENABLED set to such a value it behaves as with the
\* default false, so no retrieval runs.
C17_InvalidFlagIsDefault ==
    /\ (/\ handler = "chat"
        /\ pc # "auth"
        /\ InvalidFlag("JWT_VALIDATION_ENABLED")
        /\ IsNone(token)) =>
            /\ pc = "done"
            /\ resp.status_code = 401
    /\ (handler = "chat" /\ InvalidFlag("RAG_ENABLED")) => calls.rag = 0

\* the usage dict of the response for what the backend reported
ReportedUsage(usage) ==
    IF usage = NoUsage
    THEN [prompt_tokens |-> 0, completion_tokens |-> 0, total_tokens |-> 0]
    ELSE [prompt_tokens |-> usage.prompt_tokens,
          completion_tokens |-> usage.completion_tokens,
          total_tokens |-> usage.total_tokens]

\* C19: when a POST /chat request passes authentication and validation and
\* its completion call succeeds, the response is 200, its answer is the
\* backend's answer and its usage counts are those the backend reported, all
\* zero when it reported none.
C19_UsageAndAnswerPassedOn ==
    (handler = "chat" /\ pc = "done" /\ calls.completion.kind = "return") =>
        /\ resp.status_code = 200
        /\ resp.body.answer = calls.completion.value.answer
        /\ resp.body.usage = ReportedUsage(calls.completion.value.usage)
        /\ resp.body.correlationId = cid

C19_Witness ==
    /\ handler = "chat"
    /\ pc = "done"
    /\ calls.completion.kind = "return"
    /\ calls.completion.value.usage # NoUsage
    /\ resp.status_code = 200
    /\ resp.body.answer = "ok"
    /\ resp.body.usage.total_tokens = 15

\* the same with a backend that reported no usage
C19_WitnessNoUsage ==
    /\ handler = "chat"
    /\ pc = "done"
    /\ calls.completion.kind = "return"
    /\ calls.completion.value.usage = NoUsage
    /\ resp.body.usage.total_tokens = 0

\* the request ended in one of the two top-level except clauses of chat()
EndedInTopLevelHandler ==
    /\ handler = "chat"
    /\ pc = "done"
    /\ resp.status_code = 500

\* C21: an exception that no phase translates into a response of its own
\* reaches the top-level handler, which returns a 500 response carrying the
\* correlation id and leaves the root span with ERROR status and the
\* exception recorded on it.
C21_TopLevelHandlerRecordsException ==
    EndedInTopLevelHandler =>
        /\ resp.body.correlationId = cid
        /\ resp.headers["X-Correlation-ID"] = cid
        /\ rootStatus.status = "ERROR"
        /\ rootStatus.exceptions # << >>

\* RAG_ENABLED is set to the word true, in any letter case
RagOnGlobally ==
    /\ ~ IsNone(env["RAG_ENABLED"])
    /\ Lower(env["RAG_ENABLED"]) = sTrue

\* the body read by this request is an object whose enableRag is truthy
RagOnForRequest ==
    /\ body.valid
    /\ body.json.t = "dict"
    /\ "enableRag" \in DOMAIN body.json.d
    /\ Truthy(body.json.d["enableRag"])

C22_WitnessSearched ==
    /\ handler = "chat"
    /\ RagOnForRequest
    /\ RagOnGlobally
    /\ calls.search = 1
    /\ calls.complete = 1

\* the AUTH phase of the request in hand let it through
AuthPassed ==
    IF IsNone(extract_bearer_token(hdr))
    THEN ~ JwtOn
    ELSE calls.validate = 1 /\ kUserId \in DOMAIN rootAttrs

\* the PARSE phase read a JSON object
ParsePassed ==
    /\ calls.parse = 1
    /\ body.valid
    /\ body.json.t = "dict"

\* the VALIDATE phase found a string message of 1 to 4000 characters
ValidatePassed ==
    /\ ParsePassed
    /\ "message" \in DOMAIN body.json.d
    /\ body.json.d["message"].t = "str"
    /\ body.json.d["message"].len \in 1..4000

\* retrieval or completion has begun for the request in hand
BackendPhaseBegun ==
    \/ pc \in {"rag", "complete"}
    \/ calls.rag = 1
    \/ calls.search = 1
    \/ calls.complete = 1
    \/ messages.sent

\* C23: POST /chat runs auth, parse, validate, optional retrieval and
\* completion in that order and the first failing phase decides the response:
\* a 401 or a failure of the auth phase leaves the body unread and no backend
\* called, a 400 leaves retrieval and completion not run, and retrieval or
\* completion begin only for a request that passed auth, parsing and
\* validation.
C23_FirstFailingPhaseDecides ==
    handler = "chat" =>
        /\ calls.parse = 1 => AuthPassed
        /\ BackendPhaseBegun => (AuthPassed /\ ParsePassed /\ ValidatePassed)
        /\ calls.complete = 1 =>
              (calls.rag = 1 <=> (RagOnGlobally /\ RagOnForRequest))
        /\ pc = "done" =>
              /\ resp.status_code = 401 => NothingRan
              /\ ~ AuthPassed => (NothingRan /\ resp.status_code \in {401, 500})
              /\ resp.status_code = 400 =>
                    /\ AuthPassed
                    /\ calls.parse = 1
                    /\ ~ ValidatePassed
                    /\ calls.rag = 0
                    /\ calls.search = 0
                    /\ calls.complete = 0
                    /\ ~ messages.sent
              /\ resp.status_code = 200 =>
                    /\ AuthPassed
                    /\ ValidatePassed
                    /\ calls.complete = 1

\* a request with an over-long message to a service whose completion backend
\* is not configured gets the 400 of the earlier phase
C23_Witness ==
    /\ handler = "chat"
    /\ pc = "done"
    /\ resp.status_code = 400
    /\ ParsePassed
    /\ IsNone(env["AZURE_OPENAI_ENDPOINT"])
    /\ clients.openai = None
    /\ calls.complete = 0

\* the resolver get_jwks_client builds for an issuer
ResolverFor(issuer) == RStrip(issuer, "/") \o JwksPath

\* C24: the cache of the signing-key resolver is keyed by issuer: whenever
\* validate_jwt_token asks a resolver for the signing key, that resolver was
\* built for the ENTRA_ISSUER configured at the time of the call, also after
\* the configuration has changed between calls.
C24_ResolverBuiltForCurrentIssuer ==
    ~ IsNone(jwksUsed.client) =>
        /\ ~ NotStr(jwksUsed.issuer)
        /\ jwksUsed.client = ResolverFor(jwksUsed.issuer)

\* RAGClient.documents as __init__ (lines 18-24) builds it: no dict of the
\* store has a similarity_score key
FreshStore == [d \in 1..NumDocuments |-> NoScore]

\* C25: retrieve_documents keeps no request-scoped state in objects shared
\* between requests: the client's document store is as __init__ built it,
\* whatever retrievals have run, so the scores a returned list carries are
\* not rewritten by another retrieval.
C25_RetrievalLeavesStoreAlone == documents = FreshStore

\* where document d stands in the list random.sample produced
PlaceInSample(d) == CHOOSE i \in DOMAIN search_args.sample : search_args.sample[i] = d

\* C26: the documents a retrieval returns for a positive k are at most k in
\* number and in descending order of the score they carry, documents of equal
\* score staying in the order the backend produced them.
C26_AtMostKDescendingStable ==
    (retrieved.kind = "return" /\ search_args.top_k > 0) =>
        LET docs == retrieved.value
        IN /\ Len(docs) <= search_args.top_k
           /\ \A i, j \in DOMAIN docs :
                i < j =>
                  /\ documents[docs[i]] >= documents[docs[j]]
                  /\ documents[docs[i]] = documents[docs[j]] =>
                        PlaceInSample(docs[i]) < PlaceInSample(docs[j])

\* three documents came back, two of equal score that the sort had to move
\* behind a later, higher-scored one
C26_Witness ==
    /\ retrieved.kind = "return"
    /\ search_args.top_k = 3
    /\ Len(retrieved.value) = 3
    /\ retrieved.value # search_args.sample
    /\ documents[retrieved.value[2]] = documents[retrieved.value[3]]
    /\ documents[retrieved.value[1]] > documents[retrieved.value[2]]

\* every character of h from position a to position b is whitespace
AllSpace(h, a, b) == \A k \in a..b : IsSpace(h[k])

\* no character of h from position a to position b is whitespace
NoSpaceIn(h, a, b) == \A k \in a..b : ~ IsSpace(h[k])

\* w is the word bearer in some letter case
IsBearerWord(w) ==
    /\ Len(w) = 6
    /\ w[1] \in {"b", "B"}
    /\ w[2] \in {"e", "E"}
    /\ w[3] \in {"a", "A"}
    /\ w[4] \in {"r", "R"}
    /\ w[5] \in {"e", "E"}
    /\ w[6] \in {"r", "R"}

\* h is whitespace, a word at a..b, whitespace, a word at c..d, whitespace
TwoParts(h, a, b, c, d) ==
    /\ 1 <= a /\ a <= b /\ b + 1 < c /\ c <= d /\ d <= Len(h)
    /\ AllSpace(h, 1, a - 1)
    /\ NoSpaceIn(h, a, b)
    /\ AllSpace(h, b + 1, c - 1)
    /\ NoSpaceIn(h, c, d)
    /\ AllSpace(h, d + 1, Len(h))

\* the tokens a header of the bearer shape carries: its second part
BearerTokensOf(h) ==
    IF IsNone(h) THEN {}
    ELSE UNION {
           UNION {
             {SubSeq(h, c, d) : <<c, d>> \in
                {q \in (b + 2 .. Len(h)) \X (b + 2 .. Len(h)) :
                    TwoParts(h, a, b, q[1], q[2])}} :
             b \in {e \in a..Len(h) : IsBearerWord(SubSeq(h, a, e))}} :
           a \in 1..Len(h)}

\* C27: extract_bearer_token returns the token exactly when the header is two
\* whitespace-separated parts whose first is the word bearer in any letter
\* case, and None for an absent or empty header and every other shape.
C27_TokenExactlyForBearerShape ==
    ebt_header.called =>
        LET tokens == BearerTokensOf(ebt_header.header)
        IN IF tokens # {} THEN tokens = {ebt_token} ELSE ebt_token = None

\* a lower-case scheme, a tab as the separator, and the token came back
C27_Witness ==
    /\ ebt_header.called
    /\ ebt_header.header = sBearer \o <<"\t">> \o <<"t","1">>
    /\ ebt_token = <<"t","1">>

\* three parts give None
C27_WitnessThreeParts ==
    /\ ebt_header.called
    /\ ebt_header.header = sBearer \o <<" ">> \o <<"t","1">> \o <<" ">> \o <<"t","1">>
    /\ ebt_token = None

\* the key contains one of the sensitive field names of
\* src/api/telemetry.py, letter case aside
HasSensitiveName(key) ==
    \E name \in {kContent, kMessage, kQuery, kText} : Contains(name, Lower(key))

\* C29: on a recording span add_span_attributes sets an attribute for every
\* key of the mapping that contains no sensitive field name, whatever its
\* value: a value of False, 0 or "" is recorded like any other.
C29_FalsyMetadataRecorded ==
    tel_helper = "add_span_attributes" =>
        \A key \in DOMAIN tel_in :
            ~ HasSensitiveName(key) =>
                /\ key \in DOMAIN tel_out
                /\ tel_out[key] = tel_in[key]

OpenaiConfigured == ~ NotStr(env["AZURE_OPENAI_ENDPOINT"])

SearchConfigured ==
    /\ ~ NotStr(env["AZURE_SEARCH_ENDPOINT"])
    /\ ~ NotStr(env["AZURE_SEARCH_INDEX_NAME"])

\* the step is chat() going through its completion phase
CompletionStep == pc = "complete" /\ pc' = "done"

\* C30: a get_openai_client or get_search_client call that fails for missing
\* configuration leaves the cached client unset, and a call made once the
\* configuration is there creates the client; a client once created is the
\* one every later call gets, without the configuration being read again,
\* even after the configuration was changed or removed.
C30_ClientCachedOnlyOnceCreated ==
    [][
        /\ ~ IsNone(clients.openai) => clients'.openai = clients.openai
        /\ ~ IsNone(clients.search) => clients'.search = clients.search
        /\ (IsNone(clients.openai) /\ ~ IsNone(clients'.openai)) =>
              /\ CompletionStep
              /\ OpenaiConfigured
              /\ clients'.openai = env["AZURE_OPENAI_ENDPOINT"]
        /\ (IsNone(clients.search) /\ ~ IsNone(clients'.search)) =>
              /\ pc = "rag"
              /\ SearchConfigured
              /\ clients'.search = <<env["AZURE_SEARCH_ENDPOINT"],
                                     env["AZURE_SEARCH_INDEX_NAME"]>>
        /\ (CompletionStep /\ IsNone(clients.openai)) =>
              IF OpenaiConfigured
              THEN ~ IsNone(clients'.openai) /\ calls'.complete = 1
              ELSE /\ IsNone(clients'.openai)
                   /\ calls'.complete = 0
                   /\ resp'.status_code = 500
        /\ (CompletionStep /\ ~ IsNone(clients.openai)) => calls'.complete = 1
        /\ (pc = "rag" /\ calls'.rag = 1) =>
              (calls'.search = 1 <=>
                  (~ IsNone(clients.search) \/ SearchConfigured))
    ]_vars

\* a request is answered 200 by the cached client after AZURE_OPENAI_ENDPOINT
\* has been removed
C30_Witness ==
    /\ handler = "chat"
    /\ pc = "done"
    /\ resp.status_code = 200
    /\ ~ OpenaiConfigured
    /\ ~ IsNone(clients.openai)

\* a request failed for missing configuration and left the client unset
C30_WitnessUnset ==
    /\ handler = "chat"
    /\ pc = "done"
    /\ resp.status_code = 500
    /\ resp.body.error = "Service Configuration Error"
    /\ calls.parse = 1
    /\ IsNone(clients.openai)

====
